---- MODULE Spec2Model ----
(***************************************************************************)
(* Model of the evaluation core of grade_python_code:                      *)
(*   src/src/marking/dspy_config.py        parse_integer_answer,           *)
(*                                         create_dynamic_signature_class  *)
(*   src/src/marking/criterion_evaluator.py CriterionEvaluator             *)
(*   src/src/marking/assignment_marker.py  AssignmentMarker._evaluate_task,*)
(*                                         _load_rubric, mark_assignment,  *)
(*                                         mark_batch                      *)
(*   src/src/cli/main.py                   cli, _run_dry_run, _run_marking *)
(*   src/src/output/excel_generator.py     ExcelGenerator: the subtotals   *)
(*                                         and the grand total             *)
(*   src/src/parsers/notebook_parser.py    NotebookParser.parse_tasks      *)
(*   src/src/parsers/rubric_parser.py      RubricParser.parse_rubric       *)
(*                                                                         *)
(* Text is a sequence of one-character strings.  The token "SUP2" stands   *)
(* for the single character U+00B2 (superscript two): str.isdigit() is     *)
(* True for it and int() rejects it with ValueError.                       *)
(* Delays are whole time units.  A confidence is a double: the integer     *)
(* 100 * k + d stands for the double nearest to k / 10 plus d * 2^-54.     *)
(***************************************************************************)
EXTENDS Integers, Sequences, FiniteSets, TLC

VARIABLES
    pc,                 \* position of the running call
    answer,             \* parse_integer_answer: argument answer
    only_first_line,    \* parse_integer_answer: argument only_first_line
    max_points,         \* argument max_points of the running call
    parsed,             \* outcome of the last parse_integer_answer call
    prev_parsed,        \* outcome of the call before it
    parse_calls,        \* number of parse_integer_answer calls made
    max_retries,        \* CriterionEvaluator.max_retries
    base_delay,         \* CriterionEvaluator.base_delay
    max_delay,          \* CriterionEvaluator.max_delay
    signature_cache,    \* CriterionEvaluator._signature_cache (its max_points keys)
    signature_creations,\* number of signature instances created for each max_points
    second_evaluator,   \* _signature_cache and creations of a second CriterionEvaluator
    code,               \* evaluate_criterion: argument code
    task_description,   \* argument task_description of the running call
    criterion,          \* evaluate_criterion: argument criterion
    attempt,            \* _evaluate_with_retry: loop variable attempt
    last_error,         \* _evaluate_with_retry: local last_error
    trace,              \* sleeps and oracle calls of the running evaluation, in order
    result,             \* the EvaluationResult returned (when pc = "returned")
    exception,          \* the exception that left evaluate_criterion (when pc = "raised")
    evaluations,        \* number of evaluate_criterion calls on this evaluator
    oracle_calls,       \* number of oracle calls made by the evaluations taken so far
    task_pc,            \* position of the running _evaluate_task call
    criteria,           \* _evaluate_task: argument criteria
    idx,                \* _evaluate_task: loop variable idx
    task_result,        \* _evaluate_task: local result (a TaskResult)
    stats,              \* AssignmentMarker.stats
    failures,           \* evaluations that ended in failure and tasks that raised, so far
    rubric_files,       \* the rubric file behind each rubric path
    mark_pc,            \* position of the running mark_assignment call
    marking,            \* mark_assignment: local result (a MarkingResult)
    rubric_path,        \* mark_assignment: argument rubric_path
    task_codes,         \* mark_assignment: local task_codes
    notebook_issues,    \* mark_assignment: local notebook_issues
    rubric_data,        \* mark_assignment: local rubric_data
    rubric_issues,      \* mark_assignment: local rubric_issues
    pending,            \* task numbers the loop over sorted(rubric_data.keys()) has yet to take
    report,             \* what became of the report of the running call
    sheet,              \* the totals the report writer wrote for the running call
    mark_exception,     \* the exception that left mark_assignment (when mark_pc = "raised")
    _rubric_cache,      \* AssignmentMarker._rubric_cache
    marked,             \* number of mark_assignment calls made on this marker
    rubric_parser_calls,\* number of rubric_parser.parse_rubric calls made for each path
    batch_pc,           \* position of the running mark_batch call
    assignments,        \* mark_batch: argument assignments
    batch_rubric_path,  \* mark_batch: argument rubric_path
    position,           \* mark_batch: number of assignments the loop has finished
    results,            \* mark_batch: local results
    summaries,          \* the calls of excel_generator.generate_batch_summary, in order
    cli_pc,             \* position of the running cli command
    invocation,         \* the command line and environment of the cli command
    exit_code           \* the exit code of the process (when cli_pc = "exited")

parseVars == <<answer, only_first_line, parsed, prev_parsed, parse_calls>>

configVars == <<max_retries, base_delay, max_delay>>

callVars == <<code, task_description, criterion, attempt, last_error, trace,
              result, exception, evaluations, oracle_calls>>

evalVars == <<configVars, signature_cache, signature_creations, second_evaluator, callVars>>

taskVars == <<task_pc, criteria, idx, task_result, stats, failures>>

markVars == <<rubric_files, mark_pc, marking, rubric_path, task_codes, notebook_issues, rubric_data,
              rubric_issues, pending, report, sheet, mark_exception, _rubric_cache, marked,
              rubric_parser_calls>>

batchVars == <<batch_pc, assignments, batch_rubric_path, position, results, summaries>>

cliVars == <<cli_pc, invocation, exit_code>>

outerVars == <<batchVars, cliVars>>

vars == <<pc, max_points, parseVars, evalVars, taskVars, markVars, outerVars>>

(***************************************************************************)
(* Bounds                                                                  *)
(***************************************************************************)
MaxTextLen == 3
MaxParseCalls == 2
MaxPoints == 6
MaxRetries == 2
MaxEvaluations == 1
MaxCriteria == 2
MaxTaskNumber == 2
MaxTaskRetries == 1
MaxSignatureCalls == 3
MaxAssignments == 2

(***************************************************************************)
(* Characters and strings                                                  *)
(***************************************************************************)
DecimalChars == {"0", "1", "2", "3", "4", "5", "6", "7", "8", "9"}

\* characters c with c.isdigit()
DigitChars == DecimalChars \cup {"SUP2"}

\* characters removed by str.strip() and separating tokens in str.split()
Whitespace == {" ", "\n", "\t"}

NoValue == "NoValue"

Min(a, b) == IF a <= b THEN a ELSE b

Max(a, b) == IF a >= b THEN a ELSE b

isdigit(c) == c \in DigitChars

RECURSIVE lstrip(_)
lstrip(s) ==
    IF s = <<>> THEN <<>>
    ELSE IF Head(s) \in Whitespace THEN lstrip(Tail(s))
    ELSE s

RECURSIVE rstrip(_)
rstrip(s) ==
    IF s = <<>> THEN <<>>
    ELSE IF s[Len(s)] \in Whitespace THEN rstrip(SubSeq(s, 1, Len(s) - 1))
    ELSE s

strip(s) == rstrip(lstrip(s))

\* s.split(sep)[0]: the part of s before the first occurrence of sep
RECURSIVE split_first(_, _)
split_first(s, sep) ==
    IF s = <<>> THEN <<>>
    ELSE IF Head(s) = sep THEN <<>>
    ELSE <<Head(s)>> \o split_first(Tail(s), sep)

\* s.split(): the maximal runs of non-whitespace characters, in order
RECURSIVE split_ws(_, _)
split_ws(s, cur) ==
    IF s = <<>> THEN (IF cur = <<>> THEN <<>> ELSE <<cur>>)
    ELSE IF Head(s) \in Whitespace
         THEN (IF cur = <<>> THEN <<>> ELSE <<cur>>) \o split_ws(Tail(s), <<>>)
         ELSE split_ws(Tail(s), cur \o <<Head(s)>>)

split(s) == split_ws(s, <<>>)

has_digit(token) == \E i \in 1..Len(token) : isdigit(token[i])

DigitValue(c) ==
    CASE c = "0" -> 0 [] c = "1" -> 1 [] c = "2" -> 2 [] c = "3" -> 3
      [] c = "4" -> 4 [] c = "5" -> 5 [] c = "6" -> 6 [] c = "7" -> 7
      [] c = "8" -> 8 [] c = "9" -> 9 [] c = "SUP2" -> 2

RECURSIVE DecimalValue(_)
DecimalValue(s) ==
    IF s = <<>> THEN 0
    ELSE 10 * DecimalValue(SubSeq(s, 1, Len(s) - 1)) + DigitValue(s[Len(s)])

Returned(v) == [exc |-> "none", value |-> v]

Raised(e) == [exc |-> e, value |-> 0]

\* int(s) for a non-empty string of isdigit() characters
int(s) ==
    IF \A i \in 1..Len(s) : s[i] \in DecimalChars
    THEN Returned(DecimalValue(s))
    ELSE Raised("ValueError")

(***************************************************************************)
(* parse_integer_answer                                                    *)
(***************************************************************************)
first_line(a, first) == IF first THEN split_first(strip(a), "\n") ELSE a

tokens_with_numbers(a, first) == SelectSeq(split(first_line(a, first)), has_digit)

last_token_first(a, first) ==
    LET toks == tokens_with_numbers(a, first) IN toks[1]

last_token(a, first) ==
    LET toks == tokens_with_numbers(a, first) IN toks[Len(toks)]

strip_minus(token) ==
    IF token # <<>> /\ Head(token) = "-" THEN Tail(token) ELSE token

numeric_chars_keep_fraction(token) ==
    SelectSeq(split_first(strip_minus(token), "."), isdigit)

numeric_chars(token) ==
    SelectSeq(split_first(split_first(strip_minus(token), "."), "/"), isdigit)

clamp_no_upper(score, mp) == Max(0, score)

clamp(score, mp) == Max(0, Min(score, mp))

\* the body of the try block
parse_body(a, first, mp) ==
    IF tokens_with_numbers(a, first) = <<>> THEN Returned(0)
    ELSE LET digits == numeric_chars(last_token(a, first)) IN
         IF digits = <<>> THEN Returned(0)
         ELSE LET n == int(digits) IN
              IF n.exc # "none" THEN n
              ELSE Returned(clamp(n.value, mp))

CaughtByParser == {"ValueError", "IndexError"}

parse_integer_answer(a, first, mp) ==
    LET r == parse_body(a, first, mp) IN
    IF r.exc \in CaughtByParser THEN Returned(0) ELSE r

(***************************************************************************)
(* CriterionEvaluator: data                                                *)
(***************************************************************************)
None == "<None>"

\* an attribute of the oracle response: None or a text
NoneText == [is_none |-> TRUE, text |-> <<>>]

Str(t) == [is_none |-> FALSE, text |-> t]

\* str(x)
str(x) == IF x.is_none THEN <<"N", "o", "n", "e">> ELSE x.text

\* Student code, by what evaluate_criterion reads of it:
\*   stripped_len  len(code.lower().strip()); 0 for empty or whitespace-only code
\*   compiles      compile(code, '<string>', 'exec') returns; FALSE when it
\*                 raises SyntaxError (or a subclass, as IndentationError)
\*   lone_pass     code.lower().strip() == "pass"
\*   marker        code.lower() contains one of placeholder_patterns
\*   phrase        code.lower() contains one of those patterns without the
\*                 leading "# " that four of the five have, as `todo = 1` does
PlaceholderMaxLen == 50

CodeLens == {0, 4, 6, PlaceholderMaxLen - 1, PlaceholderMaxLen}

Codes ==
    {c \in [stripped_len : CodeLens, compiles : BOOLEAN,
            lone_pass : BOOLEAN, marker : BOOLEAN, phrase : BOOLEAN] :
        /\ c.stripped_len = 0 => (c.compiles /\ ~c.lone_pass /\ ~c.marker /\ ~c.phrase)
        /\ c.lone_pass => (c.stripped_len = 4 /\ ~c.marker /\ ~c.phrase)
        /\ c.marker => (c.stripped_len >= 6 /\ c.phrase)
        /\ c.phrase => c.stripped_len >= 4}

NoCode == [stripped_len |-> 0, compiles |-> TRUE, lone_pass |-> FALSE, marker |-> FALSE, phrase |-> FALSE]

\* criterion texts; the blank ones are those with `not s or not s.strip()`
BlankStrings == {"", " "}

Criteria == {"", " ", "uses a loop"}

TaskDescriptions == {"", "sum a list"}

\* str(e) of the exception an oracle call raises
ErrorMessages == {"", "timeout"}

ScoreTexts ==
    {NoneText, Str(<<>>), Str(<<"7">>), Str(<<"1", "5">>),
     Str(<<"7", "/", "1", "0">>), Str(<<"a">>)}

ReasoningTexts ==
    {NoneText, Str(<<>>),
     Str(<<"a", "a", "a", "a", "a", "a", "a", "a", "a", " ">>),
     Str(<<"a", "a", "a", "a", "a", "a", "a", "a", "a", "a">>)}

\* what an oracle call returns: the attributes score and reasoning
Responses == [score : ScoreTexts, reasoning : ReasoningTexts]

EvaluationResult(score, confidence, raw_response, error, retry_count) ==
    [score |-> score, confidence |-> confidence, raw_response |-> raw_response,
     error |-> error, retry_count |-> retry_count]

\* raw_response: the literal or f-string used and the values it interpolates
Literal(text) == [fmt |-> text, score |-> NoneText, reasoning |-> NoneText]

Formatted(raw_score, raw_reasoning) ==
    [fmt |-> "Score: {raw_score} | Reasoning: {raw_reasoning}",
     score |-> raw_score, reasoning |-> raw_reasoning]

NoResult == EvaluationResult(0, 0, Literal(""), None, 0)

(***************************************************************************)
(* CriterionEvaluator: functions                                           *)
(***************************************************************************)
RECURSIVE Pow2(_)
Pow2(n) == IF n = 0 THEN 1 ELSE 2 * Pow2(n - 1)

_exponential_backoff_uncapped(att) == base_delay * Pow2(att)

_exponential_backoff(att) == Min(base_delay * Pow2(att), max_delay)

\* float(s) succeeds: an optional sign, then decimal digits with at most one
\* '.', at least one digit (exponents, inf and nan need letters that no
\* ScoreTexts value has)
float_ok(s) ==
    LET body == IF s # <<>> /\ Head(s) \in {"-", "+"} THEN Tail(s) ELSE s
        dots == {i \in 1..Len(body) : body[i] = "."}
    IN /\ \A i \in 1..Len(body) : body[i] \in DecimalChars \cup {"."}
       /\ Cardinality(dots) <= 1
       /\ \E i \in 1..Len(body) : body[i] \in DecimalChars

\* the double nearest to k / 10 (the literals 1.0, 0.7, 0.3, 0.2, 0.0)
Tenths(k) == 100 * k

float_sub_exact(x, k) == x - Tenths(k)

\* the double x - Tenths(k), rounded to nearest as IEEE-754 subtraction does,
\* for the operands `confidence -= ...` can meet:
\*   1.0 - 0.7 = 0.30000000000000004      0.7 - 0.2 = 0.49999999999999994
\*   0.7 - 0.3 = 0.39999999999999997      0.49999999999999994 - 0.3 = 0.19999999999999996
\*   0.30000000000000004 - 0.3 = 5.551115123125783e-17
\*   1.0 - 0.3 = 0.7, 1.0 - 0.2 = 0.8 and 0.8 - 0.3 = 0.5 are exact
float_sub(x, k) ==
    CASE x = Tenths(10) /\ k = 7 -> Tenths(3) + 1
      [] x = Tenths(7) /\ k = 2 -> Tenths(5) - 1
      [] x = Tenths(7) /\ k = 3 -> Tenths(4) - 1
      [] x = Tenths(5) - 1 /\ k = 3 -> Tenths(2) - 1
      [] x = Tenths(3) + 1 /\ k = 3 -> Tenths(0) + 1
      [] OTHER -> x - Tenths(k)

_calculate_confidence_certain(raw_score, raw_reasoning, parsed_score, mp) == Tenths(10)

\* _calculate_confidence: the penalties, then the clamp to [0.0, 1.0]
_calculate_confidence(raw_score, raw_reasoning, parsed_score, mp) ==
    LET raw_score_str == IF raw_score.is_none THEN <<>> ELSE str(raw_score)
        raw_reasoning_str == IF raw_reasoning.is_none THEN <<>> ELSE str(raw_reasoning)
        is_numeric == strip(raw_score_str) # <<>> /\ float_ok(strip(raw_score_str))
        after_score == IF is_numeric THEN Tenths(10) ELSE float_sub(Tenths(10), 3)
        c1 == IF raw_score_str = <<>> /\ raw_reasoning_str = <<>>
              THEN float_sub(Tenths(10), 7)
              ELSE IF raw_reasoning_str = <<>> \/ Len(strip(raw_reasoning_str)) < 10
                   THEN float_sub(after_score, 2)
                   ELSE after_score
        c2 == IF parsed_score < 0 \/ parsed_score > mp THEN float_sub(c1, 3) ELSE c1
    IN Max(Tenths(0), Min(Tenths(10), c2))

\* the scales create_dynamic_signature_class accepts
SupportedScales == {1, 2, 3, 4, 6, 10}

signature_creation_never_fails(mp) == FALSE

\* create_dynamic_signature_class raises ValueError for an unsupported scale
signature_creation_fails(mp) == mp \notin SupportedScales

is_placeholder_of_any_length(c) == c.lone_pass \/ c.marker

\* placeholder test of evaluate_criterion
is_placeholder(c) == c.lone_pass \/ (c.marker /\ c.stripped_len < PlaceholderMaxLen)

pre_checks_placeholder_first(c, cr, mp) ==
    IF c.stripped_len = 0
    THEN [pre |-> "return", res |-> EvaluationResult(0, Tenths(10), Literal("Empty code"), "EMPTY_CODE", 0)]
    ELSE IF cr \in BlankStrings
    THEN [pre |-> "return", res |-> EvaluationResult(0, 0, Literal(""), "EMPTY_CRITERION", 0)]
    ELSE IF mp <= 0
    THEN [pre |-> "return", res |-> EvaluationResult(0, 0, Literal(""), "INVALID_MAX_POINTS", 0)]
    ELSE IF is_placeholder(c)
    THEN [pre |-> "return", res |-> EvaluationResult(0, Tenths(10), Literal("Placeholder code detected"), "PLACEHOLDER_CODE", 0)]
    ELSE IF ~c.compiles
    THEN [pre |-> "return", res |-> EvaluationResult(0, Tenths(10), Literal("Syntax error: {e}"), "SYNTAX_ERROR", 0)]
    ELSE [pre |-> "pass", res |-> NoResult]

pre_checks_skip_syntax(c, cr, mp) ==
    IF c.stripped_len = 0
    THEN [pre |-> "return", res |-> EvaluationResult(0, Tenths(10), Literal("Empty code"), "EMPTY_CODE", 0)]
    ELSE IF cr \in BlankStrings
    THEN [pre |-> "return", res |-> EvaluationResult(0, 0, Literal(""), "EMPTY_CRITERION", 0)]
    ELSE IF mp <= 0
    THEN [pre |-> "return", res |-> EvaluationResult(0, 0, Literal(""), "INVALID_MAX_POINTS", 0)]
    ELSE IF is_placeholder(c)
    THEN [pre |-> "return", res |-> EvaluationResult(0, Tenths(10), Literal("Placeholder code detected"), "PLACEHOLDER_CODE", 0)]
    ELSE [pre |-> "pass", res |-> NoResult]

\* the pre-checks of evaluate_criterion: the EvaluationResult of the first one
\* that matches, and NoResult with pre = "pass" if none does
pre_checks(c, cr, mp) ==
    IF c.stripped_len = 0
    THEN [pre |-> "return", res |-> EvaluationResult(0, Tenths(10), Literal("Empty code"), "EMPTY_CODE", 0)]
    ELSE IF cr \in BlankStrings
    THEN [pre |-> "return", res |-> EvaluationResult(0, 0, Literal(""), "EMPTY_CRITERION", 0)]
    ELSE IF mp <= 0
    THEN [pre |-> "return", res |-> EvaluationResult(0, 0, Literal(""), "INVALID_MAX_POINTS", 0)]
    ELSE IF ~c.compiles
    THEN [pre |-> "return", res |-> EvaluationResult(0, Tenths(10), Literal("Syntax error: {e}"), "SYNTAX_ERROR", 0)]
    ELSE IF is_placeholder(c)
    THEN [pre |-> "return", res |-> EvaluationResult(0, Tenths(10), Literal("Placeholder code detected"), "PLACEHOLDER_CODE", 0)]
    ELSE [pre |-> "pass", res |-> NoResult]

\* the instances counted so far for a max_points
creations_of(creations, mp) == IF mp \in DOMAIN creations THEN creations[mp] ELSE 0

\* creations with one more instance counted for mp
counted(creations, mp) ==
    [k \in DOMAIN creations \cup {mp} |->
        IF k = mp THEN creations_of(creations, mp) + 1 ELSE creations[k]]

_get_signature_instance_uncached(cache, creations, mp) ==
    IF signature_creation_fails(mp)
    THEN [raised |-> TRUE, cache |-> cache, creations |-> creations]
    ELSE [raised |-> FALSE, cache |-> cache \cup {mp}, creations |-> counted(creations, mp)]

\* _get_signature_instance: the cached instance, or a new one that is stored;
\* create_dynamic_signature_class raises before anything is stored
_get_signature_instance(cache, creations, mp) ==
    IF mp \in cache
    THEN [raised |-> FALSE, cache |-> cache, creations |-> creations]
    ELSE IF signature_creation_fails(mp)
    THEN [raised |-> TRUE, cache |-> cache, creations |-> creations]
    ELSE [raised |-> FALSE, cache |-> cache \cup {mp}, creations |-> counted(creations, mp)]

\* entries of trace: a time.sleep(delay), or an oracle call with its outcome
Sleep(d) == [kind |-> "sleep", delay |-> d, raised |-> FALSE, message |-> None]

OracleCall(raised, message) ==
    [kind |-> "call", delay |-> 0, raised |-> raised, message |-> message]

(***************************************************************************)
(* CriterionEvaluator: operations                                          *)
(***************************************************************************)
\* state after CriterionEvaluator.__init__
EvaluatorConstructed ==
    /\ max_retries \in 0..MaxRetries
    /\ base_delay \in {1, 2}
    /\ max_delay = 3
    /\ signature_cache = {}
    /\ signature_creations = <<>>
    /\ second_evaluator = [signature_cache |-> {}, signature_creations |-> <<>>]
    /\ code = NoCode
    /\ task_description = ""
    /\ criterion = ""
    /\ attempt = 0
    /\ last_error = None
    /\ trace = <<>>
    /\ result = NoResult
    /\ exception = None
    /\ evaluations = 0
    /\ oracle_calls = 0

\* evaluate_criterion from its entry to its return, its raise, or the point
\* where _evaluate_with_retry is about to make the first oracle call
EvaluateCriterion(c, td, cr, mp) ==
    /\ pc = "idle"
    /\ evaluations' = evaluations + 1
    /\ code' = c
    /\ task_description' = td
    /\ criterion' = cr
    /\ max_points' = mp
    /\ attempt' = 0
    /\ last_error' = None
    /\ trace' = <<>>
    /\ LET pre == pre_checks(c, cr, mp) IN
       CASE pre.pre = "return" ->
              /\ pc' = "returned"
              /\ result' = pre.res
              /\ exception' = None
              /\ UNCHANGED <<signature_cache, signature_creations>>
         [] pre.pre = "pass" ->
              LET got == _get_signature_instance(signature_cache, signature_creations, mp)
              IN  /\ pc' = (IF got.raised THEN "raised" ELSE "call")
                  /\ result' = NoResult
                  /\ exception' = (IF got.raised THEN "ValueError" ELSE None)
                  /\ signature_cache' = got.cache
                  /\ signature_creations' = got.creations
    /\ UNCHANGED <<second_evaluator, oracle_calls, parseVars, configVars, markVars, outerVars>>

\* a second CriterionEvaluator gets the signature instance for max_points, as
\* its _evaluate_with_retry does before the first oracle call
SecondEvaluatorGetsSignature(mp) ==
    /\ LET got == _get_signature_instance(second_evaluator.signature_cache,
                                          second_evaluator.signature_creations, mp)
       IN  second_evaluator' = [signature_cache |-> got.cache,
                                signature_creations |-> got.creations]
    /\ UNCHANGED <<pc, max_points, parseVars, configVars, signature_cache, signature_creations,
                   callVars, taskVars, markVars, outerVars>>

\* time.sleep(delay) before a retry
Backoff ==
    /\ pc = "sleep"
    /\ trace' = Append(trace, Sleep(_exponential_backoff(attempt - 1)))
    /\ pc' = "call"
    /\ UNCHANGED <<max_points, parseVars, configVars, signature_cache, signature_creations,
                   second_evaluator, code,
                   task_description, criterion, attempt, last_error, result,
                   exception, evaluations, oracle_calls, taskVars, markVars, outerVars>>

success_result_counting_calls(raw_score, raw_reasoning, parsed_score, mp, att) ==
    EvaluationResult(parsed_score,
                     _calculate_confidence(raw_score, raw_reasoning, parsed_score, mp),
                     Formatted(raw_score, raw_reasoning), None, att + 1)

\* the EvaluationResult _evaluate_with_retry returns from inside the loop
success_result(raw_score, raw_reasoning, parsed_score, mp, att) ==
    EvaluationResult(parsed_score,
                     _calculate_confidence(raw_score, raw_reasoning, parsed_score, mp),
                     Formatted(raw_score, raw_reasoning), None, att)

\* the oracle call returns: parse, compute confidence, return
OracleReturns(response) ==
    /\ pc = "call"
    /\ trace' = Append(trace, OracleCall(FALSE, None))
    /\ LET raw_score == response.score
           raw_reasoning == response.reasoning
           p == parse_integer_answer(str(raw_score), TRUE, max_points)
       IN IF p.exc = "none"
          THEN /\ result' = success_result(raw_score, raw_reasoning, p.value,
                                            max_points, attempt)
               /\ pc' = "returned"
               /\ UNCHANGED <<attempt, last_error>>
          ELSE \* an exception of the parser is caught like one of the oracle
               /\ last_error' = p.exc
               /\ IF attempt = max_retries
                  THEN /\ result' = EvaluationResult(0, 0, Literal(""), p.exc, max_retries)
                       /\ pc' = "returned"
                       /\ UNCHANGED attempt
                  ELSE /\ attempt' = attempt + 1
                       /\ pc' = "sleep"
                       /\ UNCHANGED result
    /\ UNCHANGED <<max_points, parseVars, configVars, signature_cache, signature_creations,
                   second_evaluator, code,
                   task_description, criterion, exception, evaluations, oracle_calls,
                   taskVars, markVars, outerVars>>

\* the oracle call raises: remember the message, retry or give up
OracleRaises(message) ==
    /\ pc = "call"
    /\ trace' = Append(trace, OracleCall(TRUE, message))
    /\ last_error' = message
    /\ IF attempt = max_retries
       THEN /\ result' = EvaluationResult(0, 0, Literal(""), message, max_retries)
            /\ pc' = "returned"
            /\ UNCHANGED attempt
       ELSE /\ attempt' = attempt + 1
            /\ pc' = "sleep"
            /\ UNCHANGED result
    /\ UNCHANGED <<max_points, parseVars, configVars, signature_cache, signature_creations,
                   second_evaluator, code,
                   task_description, criterion, exception, evaluations, oracle_calls,
                   taskVars, markVars, outerVars>>

\* the caller has taken the result or the exception of evaluate_criterion;
\* the locals of the finished call are gone and the evaluator can be called again
CallFinished ==
    /\ pc \in {"returned", "raised"}
    /\ pc' = "idle"
    /\ max_points' = 0
    /\ code' = NoCode
    /\ task_description' = ""
    /\ criterion' = ""
    /\ attempt' = 0
    /\ last_error' = None
    /\ trace' = <<>>
    /\ result' = NoResult
    /\ exception' = None
    /\ UNCHANGED <<parseVars, configVars, signature_cache, signature_creations,
                   second_evaluator, evaluations, oracle_calls, taskVars, markVars, outerVars>>

(***************************************************************************)
(* AssignmentMarker._evaluate_task                                         *)
(***************************************************************************)
CriterionResult_one_based(i, cr, mp, score, error_flag, confidence, raw_response) ==
    [criterion_index |-> i + 1, criterion |-> cr, max_points |-> mp, score |-> score,
     error_flag |-> error_flag, confidence |-> confidence, raw_response |-> raw_response]

\* an entry of TaskResult.criteria_results; error_flag = None stands for a
\* record without the key 'error_flag'
CriterionResult(i, cr, mp, score, error_flag, confidence, raw_response) ==
    [criterion_index |-> i, criterion |-> cr, max_points |-> mp, score |-> score,
     error_flag |-> error_flag, confidence |-> confidence, raw_response |-> raw_response]

\* an issue string: "Task {task}: {kind}" when criterion = 0, else
\* "Task {task} Criterion {criterion}: {kind}", followed by " - {detail}"
\* unless detail = None; a kind with braces is the whole f-string of the
\* issue, and task = 0 when the issue names no task
Issue(task, crit, kind, detail) ==
    [task |-> task, criterion |-> crit, kind |-> kind, detail |-> detail]

RECURSIVE SumMaxPoints(_)
SumMaxPoints(crits) ==
    IF crits = <<>> THEN 0 ELSE Head(crits).max_points + SumMaxPoints(Tail(crits))

TaskResult(n, c, crits) ==
    [task_number |-> n, code |-> c, criteria_results |-> <<>>, total_score |-> 0,
     max_points |-> SumMaxPoints(crits), issues |-> <<>>, missing |-> FALSE]

NoTaskResult == TaskResult(0, NoCode, <<>>)

missing_results_full_marks(crits) ==
    [i \in 1..Len(crits) |->
        CriterionResult(i - 1, crits[i].criterion, crits[i].max_points,
                        crits[i].max_points, "MISSING_TASK", Tenths(10), Literal("Task not found"))]

\* the zero-score records of a missing task
missing_results(crits) ==
    [i \in 1..Len(crits) |->
        CriterionResult(i - 1, crits[i].criterion, crits[i].max_points, 0,
                        "MISSING_TASK", Tenths(10), Literal("Task not found"))]

\* the error flag for an EvaluationResult; `if eval_result.error:` is false
\* for None and for the empty message
error_flag_of(error) ==
    IF error = None \/ error = "" THEN None
    ELSE IF error \in {"EMPTY_CODE", "PLACEHOLDER_CODE"} THEN "INCOMPLETE_CODE"
    ELSE "PARSING_ERROR"

issue_of(n, i, error) ==
    IF error \in {"EMPTY_CODE", "PLACEHOLDER_CODE"} THEN Issue(n, i + 1, "INCOMPLETE_CODE", None)
    ELSE IF error = "SYNTAX_ERROR" THEN Issue(n, i + 1, "SYNTAX_ERROR", None)
    ELSE Issue(n, i + 1, "PARSING_ERROR", error)

add_to_total_when_flagged(total, criterion_result) ==
    IF criterion_result.error_flag # None
    THEN total + criterion_result.score
    ELSE total

\* `if not criterion_result.get('error_flag'): result.total_score += score`
add_to_total(total, criterion_result) ==
    IF criterion_result.error_flag = None
    THEN total + criterion_result.score
    ELSE total

DefaultTaskDescription == "Programming task {task_number} from student assignment"

\* a dict is a function on its keys
EmptyDict == <<>>

\* d[k] = v
DictSet(d, k, v) == [x \in DOMAIN d \cup {k} |-> IF x = k THEN v ELSE d[x]]

\* no sheet written
NoSheet ==
    [subtotals |-> EmptyDict, subtotal_max |-> EmptyDict,
     grand_total_score |-> 0, grand_total_max |-> 0]

\* a MarkingResult as mark_assignment creates it
MarkingResult(student_id) ==
    [student_id |-> student_id, total_score |-> 0, max_points |-> 0,
     task_results |-> EmptyDict, issues |-> <<>>, status |-> "Unknown"]

NoMarkingResult == MarkingResult("")

\* the locals of mark_assignment when no call is running
MarkingIdle ==
    /\ mark_pc = "idle"
    /\ marking = NoMarkingResult
    /\ rubric_path = ""
    /\ task_codes = EmptyDict
    /\ notebook_issues = <<>>
    /\ rubric_data = EmptyDict
    /\ rubric_issues = <<>>
    /\ pending = <<>>
    /\ report = "none"
    /\ sheet = NoSheet
    /\ mark_exception = None

\* state after AssignmentMarker.__init__, no task running
MarkerConstructed ==
    /\ task_pc = "idle"
    /\ criteria = <<>>
    /\ idx = 0
    /\ task_result = NoTaskResult
    /\ stats = [assignments_processed |-> 0, total_api_calls |-> 0, total_errors |-> 0]
    /\ failures = [evaluations |-> 0, tasks |-> 0]
    /\ _rubric_cache = EmptyDict
    /\ marked = 0
    /\ rubric_parser_calls = EmptyDict
    /\ MarkingIdle

missing_task_result_unflagged(n, c, crits) ==
    [TaskResult(n, c, crits) EXCEPT
        !.issues = <<Issue(n, 0, "MISSING_TASK", None)>>,
        !.criteria_results = missing_results(crits)]

\* the TaskResult _evaluate_task returns for a task without code
missing_task_result(n, c, crits) ==
    [TaskResult(n, c, crits) EXCEPT
        !.missing = TRUE,
        !.issues = <<Issue(n, 0, "MISSING_TASK", None)>>,
        !.criteria_results = missing_results(crits)]

\* _evaluate_task from its entry to the return for a missing task, or to the
\* head of the loop over the criteria
EvaluateTask(n, c, crits, td) ==
    /\ task_pc = "idle"
    /\ pc = "idle"
    /\ criteria' = crits
    /\ idx' = 0
    /\ IF c.stripped_len = 0
       THEN /\ task_result' = missing_task_result(n, c, crits)
            /\ task_pc' = "done"
            /\ UNCHANGED task_description
       ELSE /\ task_result' = TaskResult(n, c, crits)
            /\ task_description' = (IF td = "" THEN DefaultTaskDescription ELSE td)
            /\ task_pc' = (IF crits = <<>> THEN "done" ELSE "loop")
    /\ UNCHANGED <<pc, max_points, parseVars, configVars, signature_cache, signature_creations,
                   second_evaluator, code,
                   criterion, attempt, last_error, trace, result, exception,
                   evaluations, oracle_calls, stats, failures, markVars, outerVars>>

\* the loop body calls self.criterion_evaluator.evaluate_criterion
TaskEvaluatesCriterion ==
    /\ task_pc = "loop"
    /\ pc = "idle"
    /\ EvaluateCriterion(task_result.code, task_description,
                         criteria[idx + 1].criterion, criteria[idx + 1].max_points)
    /\ UNCHANGED taskVars

api_calls_of_one_try(eval_result) == 1

\* what _evaluate_task adds to stats['total_api_calls'] for an EvaluationResult
api_calls_of(eval_result) == eval_result.retry_count + 1

\* the rest of the loop body: record the EvaluationResult, or the exception,
\* of the call, then go to the next criterion or return
TaskTakesResult ==
    /\ task_pc = "loop"
    /\ pc \in {"returned", "raised"}
    /\ LET n == task_result.task_number
           criterion_desc == criteria[idx + 1].criterion
           mp == criteria[idx + 1].max_points
           criterion_result ==
               IF pc = "returned"
               THEN CriterionResult(idx, criterion_desc, mp, result.score,
                                    error_flag_of(result.error), result.confidence,
                                    result.raw_response)
               ELSE CriterionResult(idx, criterion_desc, mp, 0, "PARSING_ERROR", 0,
                                    Literal("Evaluation failed: {str(e)}"))
           new_issues ==
               IF pc = "raised" THEN <<Issue(n, idx + 1, "PARSING_ERROR", exception)>>
               ELSE IF error_flag_of(result.error) # None
                    THEN <<issue_of(n, idx, result.error)>>
                    ELSE <<>>
       IN /\ task_result' = [task_result EXCEPT
                !.criteria_results = Append(@, criterion_result),
                !.issues = @ \o new_issues,
                !.total_score = IF pc = "returned" THEN add_to_total(@, criterion_result) ELSE @]
          /\ stats' = IF pc = "returned"
                      THEN [stats EXCEPT !.total_api_calls = @ + api_calls_of(result)]
                      ELSE [stats EXCEPT !.total_errors = @ + 1]
    \* the oracle calls the evaluation made
    /\ oracle_calls' = oracle_calls + Len(SelectSeq(trace, LAMBDA e : e.kind = "call"))
    \* the evaluation failed: it raised, or its last oracle call raised
    /\ failures' = IF pc = "raised" \/ (trace # <<>> /\ trace[Len(trace)].raised)
                   THEN [failures EXCEPT !.evaluations = @ + 1]
                   ELSE failures
    /\ idx' = idx + 1
    /\ task_pc' = (IF idx + 1 = Len(criteria) THEN "done" ELSE "loop")
    /\ pc' = "idle"
    /\ max_points' = 0
    /\ code' = NoCode
    /\ criterion' = ""
    /\ attempt' = 0
    /\ last_error' = None
    /\ trace' = <<>>
    /\ result' = NoResult
    /\ exception' = None
    /\ UNCHANGED <<parseVars, configVars, signature_cache, signature_creations,
                   second_evaluator, task_description,
                   evaluations, criteria, markVars, outerVars>>

(***************************************************************************)
(* NotebookParser.parse_tasks                                              *)
(***************************************************************************)
\* the task numbers every notebook is expected to hold: range(2, 8), here
\* cut down to 2..LastExpectedTask
LastExpectedTask == MaxTaskNumber + 1

ExpectedTasks == 2..LastExpectedTask

EXPECTED_TASK_COUNT == Cardinality(ExpectedTasks)

RECURSIVE sorted_descending(_)
sorted_descending(S) ==
    IF S = {} THEN <<>>
    ELSE LET m == CHOOSE x \in S : \A y \in S : x >= y
         IN  <<m>> \o sorted_descending(S \ {m})

\* sorted(S) for a finite set of integers
RECURSIVE sorted(_)
sorted(S) ==
    IF S = {} THEN <<>>
    ELSE LET m == CHOOSE x \in S : \A y \in S : x <= y
         IN  <<m>> \o sorted(S \ {m})

\* a notebook file: unreadable (missing, corrupted, not a notebook), or the
\* code cells that follow its solution markers, in order, each stripped
UnreadableNotebook == [readable |-> FALSE, solutions |-> <<>>]

Notebook(solutions) == [readable |-> TRUE, solutions |-> solutions]

\* the task number of the solution at 0-based position task_index
_identify_task_number(task_index) == Min(task_index + 2, LastExpectedTask)

\* the issue _validate_code_content names, None for valid code; code that
\* carries a placeholder marker without being a lone pass is not offered
_validate_code_content(c) ==
    IF c.stripped_len = 0 THEN "EMPTY_CODE"
    ELSE IF c.lone_pass THEN "PLACEHOLDER_CODE"
    ELSE None

found_tasks(solutions) == {_identify_task_number(i - 1) : i \in 1..Len(solutions)}

\* found_tasks[n]: the later solution overwrites the earlier one
found_code(solutions, n) ==
    LET last == CHOOSE i \in 1..Len(solutions) :
                    /\ _identify_task_number(i - 1) = n
                    /\ \A j \in 1..Len(solutions) :
                          _identify_task_number(j - 1) = n => j <= i
    IN  solutions[last]

\* the mapping parse_tasks returns: every expected task number is a key
parse_tasks(solutions) ==
    [n \in ExpectedTasks \cup found_tasks(solutions) |->
        IF n \in found_tasks(solutions) THEN found_code(solutions, n) ELSE NoCode]

RECURSIVE validation_issues(_, _)
validation_issues(solutions, i) ==
    IF i > Len(solutions) THEN <<>>
    ELSE (IF _validate_code_content(solutions[i]) = None THEN <<>>
          ELSE <<Issue(_identify_task_number(i - 1), 0,
                       _validate_code_content(solutions[i]), None)>>)
         \o validation_issues(solutions, i + 1)

RECURSIVE missing_task_issues(_)
missing_task_issues(tasks) ==
    IF tasks = <<>> THEN <<>>
    ELSE <<Issue(Head(tasks), 0, "MISSING_TASK", None)>> \o missing_task_issues(Tail(tasks))

\* the issues the parser holds after parse_tasks
notebook_parser_issues(solutions) ==
    validation_issues(solutions, 1)
    \o (IF Cardinality(found_tasks(solutions)) < EXPECTED_TASK_COUNT
        THEN <<Issue(0, 0, "Expected {EXPECTED_TASK_COUNT} tasks, found {len(found_tasks)}", None)>>
        ELSE <<>>)
    \o missing_task_issues(sorted(ExpectedTasks \ found_tasks(solutions)))

(***************************************************************************)
(* RubricParser.parse_rubric                                               *)
(***************************************************************************)
\* a rubric file: unreadable (missing, empty, not a CSV), or the criteria it
\* lists under each task it names; tasks are listed in ascending order
UnreadableRubric == [readable |-> FALSE, tasks |-> EmptyDict]

Rubric(tasks) == [readable |-> TRUE, tasks |-> tasks]

EXPECTED_TASK_POINTS(n) ==
    CASE n = 2 -> 8
      [] n = 3 -> 10
      [] n \in {4, 5, 6} -> 15
      [] OTHER -> 20

RECURSIVE SumOver(_, _)
SumOver(f, keys) ==
    IF keys = <<>> THEN 0 ELSE f[Head(keys)] + SumOver(f, Tail(keys))

\* 83 for the tasks 2..7: the sum of the expected points of the expected tasks
EXPECTED_TOTAL_POINTS ==
    SumOver([n \in ExpectedTasks |-> EXPECTED_TASK_POINTS(n)], sorted(ExpectedTasks))

total_max_points_counting_criteria(tasks) ==
    SumOver([n \in DOMAIN tasks |-> Len(tasks[n])], sorted(DOMAIN tasks))

\* sum(sum(c['max_points'] for c in criteria) for criteria in tasks.values())
total_max_points(tasks) ==
    SumOver([n \in DOMAIN tasks |-> SumMaxPoints(tasks[n])], sorted(DOMAIN tasks))

RECURSIVE missing_from_rubric(_)
missing_from_rubric(keys) ==
    IF keys = <<>> THEN <<>>
    ELSE <<Issue(Head(keys), 0, "Missing Task {expected_task}", None)>>
         \o missing_from_rubric(Tail(keys))

RECURSIVE unexpected_points(_, _)
unexpected_points(tasks, keys) ==
    IF keys = <<>> THEN <<>>
    ELSE (IF /\ Head(keys) \in ExpectedTasks
             /\ SumMaxPoints(tasks[Head(keys)]) # EXPECTED_TASK_POINTS(Head(keys))
          THEN <<Issue(Head(keys), 0, "Expected {expected_points} points, found {actual_points}", None)>>
          ELSE <<>>)
         \o unexpected_points(tasks, Tail(keys))

\* the issues _validate_task_structure adds
_validate_task_structure(tasks) ==
    missing_from_rubric(sorted(ExpectedTasks \ DOMAIN tasks))
    \o unexpected_points(tasks, sorted(DOMAIN tasks))
    \o (IF total_max_points(tasks) # EXPECTED_TOTAL_POINTS
        THEN <<Issue(0, 0, "Total points: Expected {EXPECTED_TOTAL_POINTS}, found {total_points}", None)>>
        ELSE <<>>)

(***************************************************************************)
(* AssignmentMarker._load_rubric                                           *)
(***************************************************************************)
LoadFailed == [ok |-> FALSE, data |-> EmptyDict, issues |-> <<>>]

Loaded(data, issues) == [ok |-> TRUE, data |-> data, issues |-> issues]

_load_rubric_lenient(cache, path, file) ==
    IF path \in DOMAIN cache THEN Loaded(cache[path], <<>>)
    ELSE Loaded(file.tasks, _validate_task_structure(file.tasks))

\* what _load_rubric returns for a path, given the cache and the file
_load_rubric(cache, path, file) ==
    IF path \in DOMAIN cache THEN Loaded(cache[path], <<>>)
    ELSE IF ~file.readable THEN LoadFailed
    ELSE Loaded(file.tasks, _validate_task_structure(file.tasks))

_load_rubric_cache_forgetful(cache, path, file) ==
    cache

\* the cache _load_rubric leaves behind
_load_rubric_cache(cache, path, file) ==
    IF path \notin DOMAIN cache /\ file.readable
    THEN DictSet(cache, path, file.tasks)
    ELSE cache

\* the number of RubricParser(rubric_path).parse_rubric() calls one
\* _load_rubric call makes
_load_rubric_parses(cache, path) ==
    IF path \in DOMAIN cache THEN 0 ELSE 1

\* the calls counted so far for a path
calls_for(calls, path) == IF path \in DOMAIN calls THEN calls[path] ELSE 0

(***************************************************************************)
(* mark_batch and the cli command when they are not running                *)
(***************************************************************************)
\* no mark_batch call is running
BatchIdle ==
    /\ batch_pc = "idle"
    /\ assignments = <<>>
    /\ batch_rubric_path = ""
    /\ position = 0
    /\ results = EmptyDict
    /\ summaries = <<>>

\* no cli command is running
NoInvocation ==
    [notebook_exists |-> FALSE, notebook_suffix_ok |-> FALSE, notebook |-> UnreadableNotebook,
     rubric_exists |-> FALSE, rubric_suffix_ok |-> FALSE, rubric |-> "",
     output_dir_writable |-> FALSE, dry_run |-> FALSE, api_key_set |-> FALSE,
     interrupted |-> FALSE]

CliIdle ==
    /\ cli_pc = "idle"
    /\ invocation = NoInvocation
    /\ exit_code = None

(***************************************************************************)
(* AssignmentMarker.mark_assignment                                        *)
(***************************************************************************)
status_by_issues_first(marking_result) ==
    IF DOMAIN marking_result.task_results = {} THEN "Failed - No Tasks Processed"
    ELSE IF Len(marking_result.issues) > 2 THEN "Completed with Issues"
    ELSE IF marking_result.total_score = 0 THEN "Completed - Zero Score"
    ELSE "Completed"

\* the status mark_assignment settles on before it returns
status_of(marking_result) ==
    IF DOMAIN marking_result.task_results = {} THEN "Failed - No Tasks Processed"
    ELSE IF marking_result.total_score = 0 THEN "Completed - Zero Score"
    ELSE IF Len(marking_result.issues) > 2 THEN "Completed with Issues"
    ELSE "Completed"

\* the variables of a task evaluation and of the evaluator below it
belowMarkVars == <<pc, max_points, parseVars, evalVars, taskVars>>

\* mark_assignment from its entry to the end of step 1 (load notebook)
MarkAssignment(student_id, notebook, path) ==
    /\ mark_pc = "idle"
    /\ task_pc = "idle"
    /\ pc = "idle"
    /\ marked' = marked + 1
    /\ rubric_path' = path
    /\ IF notebook.readable
       THEN /\ task_codes' = parse_tasks(notebook.solutions)
            /\ notebook_issues' = notebook_parser_issues(notebook.solutions)
            /\ marking' = [MarkingResult(student_id) EXCEPT
                              !.issues = notebook_parser_issues(notebook.solutions)]
            /\ mark_pc' = "rubric"
            /\ UNCHANGED mark_exception
       ELSE /\ marking' = [MarkingResult(student_id) EXCEPT !.status = "Failed - {str(e)}"]
            /\ mark_exception' = "AssignmentMarkingError: notebook"
            /\ mark_pc' = "raised"
            /\ UNCHANGED <<task_codes, notebook_issues>>
    /\ UNCHANGED <<outerVars, rubric_parser_calls, rubric_files, rubric_data, rubric_issues, pending, report, sheet,
                   _rubric_cache, belowMarkVars>>

\* step 2: load the rubric and fix max_points
LoadRubric ==
    /\ mark_pc = "rubric"
    /\ LET loaded == _load_rubric(_rubric_cache, rubric_path, rubric_files[rubric_path])
       IN  IF loaded.ok
           THEN /\ rubric_data' = loaded.data
                /\ rubric_issues' = loaded.issues
                /\ marking' = [marking EXCEPT
                                  !.issues = @ \o loaded.issues,
                                  !.max_points = total_max_points(loaded.data)]
                /\ pending' = sorted(DOMAIN loaded.data)
                /\ mark_pc' = (IF DOMAIN loaded.data = {} THEN "report" ELSE "tasks")
                /\ UNCHANGED mark_exception
           ELSE /\ marking' = [marking EXCEPT !.status = "Failed - {str(e)}"]
                /\ mark_exception' = "AssignmentMarkingError: rubric"
                /\ mark_pc' = "raised"
                /\ UNCHANGED <<rubric_data, rubric_issues, pending>>
    /\ _rubric_cache' = _load_rubric_cache(_rubric_cache, rubric_path, rubric_files[rubric_path])
    /\ rubric_parser_calls' =
           DictSet(rubric_parser_calls, rubric_path,
                   calls_for(rubric_parser_calls, rubric_path)
                   + _load_rubric_parses(_rubric_cache, rubric_path))
    /\ UNCHANGED <<outerVars, rubric_files, rubric_path, task_codes, notebook_issues, report, sheet, marked,
                   belowMarkVars>>

\* task_codes.get(task_number, "")
code_of(codes, task_number) ==
    IF task_number \in DOMAIN codes THEN codes[task_number] ELSE NoCode

\* step 3, loop body: call _evaluate_task for the next rubric task
MarkEvaluatesTask ==
    /\ mark_pc = "tasks"
    /\ task_pc = "idle"
    /\ EvaluateTask(Head(pending), code_of(task_codes, Head(pending)),
                    rubric_data[Head(pending)], "")

\* the task variables once the caller holds the TaskResult
TaskReturned ==
    /\ task_pc' = "idle"
    /\ criteria' = <<>>
    /\ idx' = 0
    /\ task_result' = NoTaskResult
    /\ task_description' = ""

\* step 3, loop body: store the TaskResult _evaluate_task returned
MarkTakesTaskResult ==
    /\ mark_pc = "tasks"
    /\ task_pc = "done"
    /\ marking' = [marking EXCEPT
                      !.task_results = DictSet(@, Head(pending), task_result),
                      !.total_score = @ + task_result.total_score,
                      !.issues = @ \o task_result.issues]
    /\ pending' = Tail(pending)
    /\ mark_pc' = (IF Tail(pending) = <<>> THEN "report" ELSE "tasks")
    /\ TaskReturned
    /\ UNCHANGED <<pc, max_points, parseVars, configVars, signature_cache, signature_creations,
                   second_evaluator, code,
                   criterion, attempt, last_error, trace, result, exception,
                   evaluations, oracle_calls, stats, failures>>
    /\ UNCHANGED <<outerVars, rubric_parser_calls, rubric_files, rubric_path, task_codes, notebook_issues, rubric_data,
                   rubric_issues, report, sheet, mark_exception, _rubric_cache, marked>>

EvaluateTaskRaises_fatal(detail) ==
    /\ mark_pc = "tasks"
    /\ task_pc \in {"idle", "loop"}
    /\ pc = "idle"
    /\ stats' = [stats EXCEPT !.total_errors = @ + 1]
    /\ failures' = [failures EXCEPT !.tasks = @ + 1]
    /\ marking' = [marking EXCEPT !.status = "Failed - {str(e)}"]
    /\ mark_exception' = detail
    /\ pending' = Tail(pending)
    /\ mark_pc' = "raised"
    /\ TaskReturned
    /\ UNCHANGED <<pc, max_points, parseVars, configVars, signature_cache, signature_creations,
                   second_evaluator, code,
                   criterion, attempt, last_error, trace, result, exception,
                   evaluations, oracle_calls>>
    /\ UNCHANGED <<outerVars, rubric_parser_calls, rubric_files, rubric_path, task_codes, notebook_issues, rubric_data,
                   rubric_issues, report, sheet, _rubric_cache, marked>>

\* step 3, loop body: an exception leaves _evaluate_task (one that
\* evaluate_criterion raises never does: the loop over the criteria catches
\* it); the handler stores a stub for the task
EvaluateTaskRaises(detail) ==
    /\ mark_pc = "tasks"
    /\ task_pc \in {"idle", "loop"}
    /\ pc = "idle"
    /\ stats' = [stats EXCEPT !.total_errors = @ + 1]
    /\ failures' = [failures EXCEPT !.tasks = @ + 1]
    /\ LET task_number == Head(pending)
           failed_result ==
               [TaskResult(task_number, code_of(task_codes, task_number),
                           rubric_data[task_number]) EXCEPT
                   !.issues = <<Issue(task_number, 0, "PROCESSING_ERROR", detail)>>]
       IN  marking' = [marking EXCEPT
                          !.task_results = DictSet(@, task_number, failed_result),
                          !.issues = @ \o failed_result.issues]
    /\ pending' = Tail(pending)
    /\ mark_pc' = (IF Tail(pending) = <<>> THEN "report" ELSE "tasks")
    /\ TaskReturned
    /\ UNCHANGED <<pc, max_points, parseVars, configVars, signature_cache, signature_creations,
                   second_evaluator, code,
                   criterion, attempt, last_error, trace, result, exception,
                   evaluations, oracle_calls>>
    /\ UNCHANGED <<outerVars, rubric_parser_calls, rubric_files, rubric_path, task_codes, notebook_issues, rubric_data,
                   rubric_issues, report, sheet, mark_exception, _rubric_cache, marked>>

after_report_discarding_scores(marking_result, excel_error) ==
    IF excel_error = None THEN marking_result
    ELSE [marking_result EXCEPT
             !.total_score = 0,
             !.issues = Append(@, Issue(0, 0, "Excel generation failed: {str(e)}", excel_error))]

\* step 4: the result once _generate_excel_output has returned or raised
after_report(marking_result, excel_error) ==
    IF excel_error = None THEN marking_result
    ELSE [marking_result EXCEPT
             !.issues = Append(@, Issue(0, 0, "Excel generation failed: {str(e)}", excel_error))]

\* _generate_excel_output: the criteria records of every task result
excel_marking_results(marking_result) ==
    [n \in DOMAIN marking_result.task_results |->
        marking_result.task_results[n].criteria_results]

counted_score_of_flagged(r) == IF r.error_flag # None THEN r.score ELSE 0

\* what a row adds to a total of the writer: its score, if it has no error_flag
counted_score(r) == IF r.error_flag = None THEN r.score ELSE 0

RECURSIVE subtotal_score(_)
\* sum(r.get('score', 0) for r in results if not r.get('error_flag'))
subtotal_score(task_records) ==
    IF task_records = <<>> THEN 0
    ELSE counted_score(Head(task_records)) + subtotal_score(Tail(task_records))

\* marking_results.get(task_num, [])
records_of(marking_results, task_num) ==
    IF task_num \in DOMAIN marking_results THEN marking_results[task_num] ELSE <<>>

\* the SUBTOTAL rows and the GRAND TOTAL row generate_marking_sheet writes
generate_marking_sheet(rubric, marking_results) ==
    LET subtotals == [n \in DOMAIN rubric |->
                         subtotal_score(records_of(marking_results, n))]
        maxima == [n \in DOMAIN rubric |-> SumMaxPoints(rubric[n])]
    IN  [subtotals |-> subtotals,
         subtotal_max |-> maxima,
         grand_total_score |-> SumOver(subtotals, sorted(DOMAIN rubric)),
         grand_total_max |-> SumOver(maxima, sorted(DOMAIN rubric))]

\* steps 4 to 7: generate the report (excel_error is None when the writer
\* returns, else str(e) of what it raised), settle the status, update the
\* statistics, return
GenerateReport(excel_error) ==
    /\ mark_pc = "report"
    /\ report' = (IF excel_error = None THEN "generated" ELSE "failed")
    /\ sheet' = (IF excel_error = None
                 THEN generate_marking_sheet(rubric_data, excel_marking_results(marking))
                 ELSE NoSheet)
    /\ LET reported == after_report(marking, excel_error)
       IN  marking' = [reported EXCEPT !.status = status_of(reported)]
    /\ stats' = [stats EXCEPT !.assignments_processed = @ + 1]
    /\ UNCHANGED failures
    /\ mark_pc' = "returned"
    /\ UNCHANGED <<pc, max_points, parseVars, evalVars, task_pc, criteria, idx, task_result>>
    /\ UNCHANGED <<outerVars, rubric_parser_calls, rubric_files, rubric_path, task_codes, notebook_issues, rubric_data,
                   rubric_issues, pending, mark_exception, _rubric_cache, marked>>

\* the mark_assignment variables once the caller holds the MarkingResult or
\* the exception
MarkReturned ==
    /\ mark_pc' = "idle"
    /\ marking' = NoMarkingResult
    /\ rubric_path' = ""
    /\ task_codes' = EmptyDict
    /\ notebook_issues' = <<>>
    /\ rubric_data' = EmptyDict
    /\ rubric_issues' = <<>>
    /\ pending' = <<>>
    /\ report' = "none"
    /\ sheet' = NoSheet
    /\ mark_exception' = None

\* the caller has taken the MarkingResult or the exception of mark_assignment
MarkFinished ==
    /\ mark_pc \in {"returned", "raised"}
    /\ MarkReturned
    /\ UNCHANGED <<outerVars, rubric_parser_calls, rubric_files, _rubric_cache, marked, belowMarkVars>>

(***************************************************************************)
(* AssignmentMarker.mark_batch                                             *)
(***************************************************************************)
\* an element of the argument assignments; notebook is the file behind its
\* notebook_path
Assignment(student_id, notebook) == [student_id |-> student_id, notebook |-> notebook]

failed_marking_unmarked(student_id, e) ==
    MarkingResult(student_id)

\* the MarkingResult the handler in the loop of mark_batch stores for a student
\* whose mark_assignment call raised e
failed_marking(student_id, e) ==
    [MarkingResult(student_id) EXCEPT
        !.status = "Failed - " \o e,
        !.issues = <<Issue(0, 0, "Critical error: {str(e)}", e)>>]

batch_summary_of_marked(batch_results) ==
    LET marked_students == {student_id \in DOMAIN batch_results :
                               batch_results[student_id].max_points > 0}
    IN  [student_id \in marked_students |->
            [total_score |-> batch_results[student_id].total_score,
             max_points |-> batch_results[student_id].max_points,
             issues |-> batch_results[student_id].issues,
             status |-> batch_results[student_id].status]]

\* the dict mark_batch hands to generate_batch_summary
batch_summary(batch_results) ==
    [student_id \in DOMAIN batch_results |->
        [total_score |-> batch_results[student_id].total_score,
         max_points |-> batch_results[student_id].max_points,
         issues |-> batch_results[student_id].issues,
         status |-> batch_results[student_id].status]]

belowBatchVars == <<pc, max_points, parseVars, evalVars, taskVars, markVars>>

\* mark_batch from its entry to the head of the loop over the assignments
MarkBatch(assignment_list, path) ==
    /\ batch_pc = "idle"
    /\ mark_pc = "idle"
    /\ task_pc = "idle"
    /\ pc = "idle"
    /\ batch_pc' = "loop"
    /\ assignments' = assignment_list
    /\ batch_rubric_path' = path
    /\ position' = 0
    /\ results' = EmptyDict
    /\ UNCHANGED <<summaries, cliVars, belowBatchVars>>

\* loop body: call mark_assignment for the next assignment
BatchMarksAssignment ==
    /\ batch_pc = "loop"
    /\ position < Len(assignments)
    /\ MarkAssignment(assignments[position + 1].student_id,
                      assignments[position + 1].notebook, batch_rubric_path)

\* loop body: store the MarkingResult mark_assignment returned
BatchTakesResult ==
    /\ batch_pc = "loop"
    /\ mark_pc = "returned"
    /\ results' = DictSet(results, assignments[position + 1].student_id, marking)
    /\ position' = position + 1
    /\ MarkReturned
    /\ UNCHANGED <<batch_pc, assignments, batch_rubric_path, summaries, cliVars>>
    /\ UNCHANGED <<rubric_files, _rubric_cache, marked, rubric_parser_calls, belowMarkVars>>

\* loop body: mark_assignment raised; the handler stores a failed result
BatchTakesException ==
    /\ batch_pc = "loop"
    /\ mark_pc = "raised"
    /\ results' = DictSet(results, assignments[position + 1].student_id,
                          failed_marking(assignments[position + 1].student_id,
                                         mark_exception))
    /\ position' = position + 1
    /\ MarkReturned
    /\ UNCHANGED <<batch_pc, assignments, batch_rubric_path, summaries, cliVars>>
    /\ UNCHANGED <<rubric_files, _rubric_cache, marked, rubric_parser_calls, belowMarkVars>>

\* after the loop: build the summary, hand it to generate_batch_summary
\* (error is None when the writer returns, else str(e) of what it raised and
\* the handler logs), return results
GenerateBatchSummary(error) ==
    /\ batch_pc = "loop"
    /\ position = Len(assignments)
    /\ summaries' = Append(summaries, [summary |-> batch_summary(results), error |-> error])
    /\ batch_pc' = "returned"
    /\ UNCHANGED <<assignments, batch_rubric_path, position, results, cliVars, belowBatchVars>>

\* the caller has taken the results of mark_batch
BatchFinished ==
    /\ batch_pc = "returned"
    /\ batch_pc' = "idle"
    /\ assignments' = <<>>
    /\ batch_rubric_path' = ""
    /\ position' = 0
    /\ results' = EmptyDict
    /\ UNCHANGED <<summaries, cliVars, belowBatchVars>>

(***************************************************************************)
(* cli (src/cli/main.py)                                                   *)
(***************************************************************************)
\* the exit code click gives a command line it rejects: an option of type
\* click.Path(exists=True) that names no file
UsageErrorCode == 2

\* why cli leaves its try block before the marker runs, or None:
\* _validate_inputs, then the check of OPENAI_API_KEY
setup_error(command) ==
    IF ~command.notebook_suffix_ok THEN "InvalidFileError: notebook"
    ELSE IF ~command.rubric_suffix_ok THEN "InvalidFileError: rubric"
    ELSE IF ~command.output_dir_writable THEN "MarkingError: output directory"
    ELSE IF ~command.dry_run /\ ~command.api_key_set THEN "MarkingError: OPENAI_API_KEY"
    ELSE None

\* the command line is parsed and cli runs up to the call of _run_dry_run or
\* _run_marking; every handler of the try block exits with 1
Cli(command) ==
    /\ cli_pc = "idle"
    /\ mark_pc = "idle"
    /\ invocation' = command
    /\ IF ~command.notebook_exists \/ ~command.rubric_exists
       THEN cli_pc' = "exited" /\ exit_code' = UsageErrorCode
       ELSE IF setup_error(command) # None
       THEN cli_pc' = "exited" /\ exit_code' = 1
       ELSE /\ cli_pc' = (IF command.dry_run THEN "dry_run" ELSE "marking")
            /\ UNCHANGED exit_code
    /\ UNCHANGED <<batchVars, belowBatchVars>>

\* _run_dry_run: validate_setup, then the two loads again; it returns in every
\* case, and cli returns after it
RunDryRun ==
    /\ cli_pc = "dry_run"
    /\ _rubric_cache' = _load_rubric_cache(_rubric_cache, invocation.rubric,
                                           rubric_files[invocation.rubric])
    /\ rubric_parser_calls' =
           DictSet(rubric_parser_calls, invocation.rubric,
                   calls_for(rubric_parser_calls, invocation.rubric)
                   + _load_rubric_parses(_rubric_cache, invocation.rubric))
    /\ cli_pc' = "exited"
    /\ exit_code' = 0
    /\ UNCHANGED <<invocation, batchVars, belowMarkVars>>
    /\ UNCHANGED <<rubric_files, mark_pc, marking, rubric_path, task_codes, notebook_issues,
                   rubric_data, rubric_issues, pending, report, sheet, mark_exception, marked>>

\* _run_marking calls mark_assignment
RunMarking ==
    /\ cli_pc = "marking"
    /\ marked = 0
    /\ MarkAssignment("s1", invocation.notebook, invocation.rubric)

\* mark_assignment has returned: the results are shown and cli returns
MarkingShown ==
    /\ cli_pc = "marking"
    /\ mark_pc = "returned"
    /\ cli_pc' = "exited"
    /\ exit_code' = 0
    /\ UNCHANGED <<invocation, batchVars, belowBatchVars>>

\* mark_assignment has raised: _run_marking raises it again and the handler
\* of cli exits with 1
MarkingFailed ==
    /\ cli_pc = "marking"
    /\ mark_pc = "raised"
    /\ cli_pc' = "exited"
    /\ exit_code' = 1
    /\ UNCHANGED <<invocation, batchVars, belowBatchVars>>

\* KeyboardInterrupt inside the try block of cli
Interrupted ==
    /\ cli_pc \in {"dry_run", "marking"}
    /\ invocation' = [invocation EXCEPT !.interrupted = TRUE]
    /\ cli_pc' = "exited"
    /\ exit_code' = 130
    /\ UNCHANGED <<batchVars, belowBatchVars>>

(***************************************************************************)
(* Inputs of the parser                                                    *)
(***************************************************************************)
ParseAlphabet == {"1", "5", "-", ".", "/", " ", "\n", "a", "SUP2"}

ExampleTexts == {
    <<"F", "i", "r", "s", "t", " ", "3", ",", " ", "t", "h", "e", "n", " ", "5", ",", " ", "f", "i", "n", "a", "l", "l", "y", " ", "8">>,
    <<"T", "h", "e", " ", "s", "c", "o", "r", "e", " ", "i", "s", " ", "8", " ", "o", "u", "t", " ", "o", "f", " ", "1", "0">>,
    <<"n", "o", " ", "n", "u", "m", "b", "e", "r", "s", " ", "h", "e", "r", "e">>,
    <<"S", "c", "o", "r", "e", ":", " ", "3", "\n", "9", " ", "o", "f", " ", "1", "0">>,
    <<"7", "/", "1", "0">>,
    <<"7", ".", "9">>,
    <<"-", "5">>,
    <<"1", "5">>,
    <<"5", "SUP2">> }

Texts == UNION {[1..k -> ParseAlphabet] : k \in 0..MaxTextLen} \cup ExampleTexts

PointsInputs == (-1..MaxPoints) \cup SupportedScales

(***************************************************************************)
(* Specification of the parser called on its own                           *)
(***************************************************************************)
ParseInit ==
    /\ pc = "parse"
    /\ answer \in Texts
    /\ only_first_line \in BOOLEAN
    /\ max_points \in PointsInputs
    /\ parsed = NoValue
    /\ prev_parsed = NoValue
    /\ parse_calls = 0
    /\ EvaluatorConstructed
    /\ max_retries = 0
    /\ base_delay = 1
    /\ MarkerConstructed
    /\ BatchIdle
    /\ CliIdle
    /\ rubric_files = EmptyDict

ParseIntegerAnswer ==
    /\ pc = "parse"
    /\ parse_calls < MaxParseCalls
    /\ parsed' = parse_integer_answer(answer, only_first_line, max_points)
    /\ prev_parsed' = parsed
    /\ parse_calls' = parse_calls + 1
    /\ UNCHANGED <<pc, answer, only_first_line, max_points, evalVars, taskVars, markVars, outerVars>>

ParseNext == ParseIntegerAnswer

ParseSpec == ParseInit /\ [][ParseNext]_vars

(***************************************************************************)
(* Specification of one CriterionEvaluator called by arbitrary callers     *)
(***************************************************************************)
ParserIdle ==
    /\ answer = <<>>
    /\ only_first_line = TRUE
    /\ parsed = NoValue
    /\ prev_parsed = NoValue
    /\ parse_calls = 0

Init ==
    /\ pc = "idle"
    /\ max_points = 0
    /\ ParserIdle
    /\ EvaluatorConstructed
    /\ MarkerConstructed
    /\ BatchIdle
    /\ CliIdle
    /\ rubric_files = EmptyDict

CallEvaluateCriterion ==
    /\ pc = "idle"
    /\ evaluations < MaxEvaluations
    /\ UNCHANGED taskVars
    /\ \E c \in Codes, td \in TaskDescriptions, cr \in Criteria, mp \in PointsInputs :
          EvaluateCriterion(c, td, cr, mp)

OracleCallReturns == \E response \in Responses : OracleReturns(response)

OracleCallRaises == \E message \in ErrorMessages : OracleRaises(message)

Next ==
    \/ CallEvaluateCriterion
    \/ Backoff
    \/ OracleCallReturns
    \/ OracleCallRaises
    \/ CallFinished

Spec == Init /\ [][Next]_vars

(***************************************************************************)
(* Specification of one _evaluate_task call                                *)
(***************************************************************************)
TaskNumbers == 1..MaxTaskNumber

\* rubric criteria a task can carry
RubricCriteria == [criterion : {"", "uses a loop"}, max_points : {0, 2, 5}]

CriteriaLists == UNION {[1..k -> RubricCriteria] : k \in 0..MaxCriteria}

\* oracle responses offered to a task evaluation
TaskResponses ==
    {[score |-> Str(<<"1", "5">>), reasoning |-> Str(<<"a", "a", "a", "a", "a", "a", "a", "a", "a", "a">>)],
     [score |-> Str(<<"1">>), reasoning |-> Str(<<>>)],
     [score |-> Str(<<"a">>), reasoning |-> NoneText]}

TaskInit ==
    /\ pc = "idle"
    /\ max_points = 0
    /\ ParserIdle
    /\ EvaluatorConstructed
    /\ max_retries <= MaxTaskRetries
    /\ base_delay = 1
    /\ MarkerConstructed
    /\ BatchIdle
    /\ CliIdle
    /\ rubric_files = EmptyDict

CallEvaluateTask ==
    /\ task_pc = "idle"
    /\ \E n \in TaskNumbers, c \in Codes, crits \in CriteriaLists, td \in TaskDescriptions :
          EvaluateTask(n, c, crits, td)

TaskOracleCallReturns == \E response \in TaskResponses : OracleReturns(response)

TaskNext ==
    \/ CallEvaluateTask
    \/ TaskEvaluatesCriterion
    \/ Backoff
    \/ TaskOracleCallReturns
    \/ OracleCallRaises
    \/ TaskTakesResult

TaskSpec == TaskInit /\ [][TaskNext]_vars

(***************************************************************************)
(* Specification of one mark_assignment call                               *)
(***************************************************************************)
RubricPaths == {"rubric.csv"}

\* criteria as the rubric parser yields them: stripped, non-empty text and an
\* integer number of points
UsesALoop == [criterion |-> "uses a loop", max_points |-> 4]

ReturnsTheSum == [criterion |-> "returns the sum", max_points |-> 4]

HandlesEmptyInput == [criterion |-> "handles empty input", max_points |-> 6]

ParsedCriteriaLists == {<<UsesALoop, ReturnsTheSum>>, <<UsesALoop, HandlesEmptyInput>>}

RubricFiles ==
    {UnreadableRubric}
    \cup {Rubric(tasks) : tasks \in UNION {[T -> ParsedCriteriaLists] : T \in SUBSET ExpectedTasks}}

\* the code of a solution cell: empty, a lone pass, or a program that compiles
NotebookCodes ==
    {NoCode,
     [stripped_len |-> 4, compiles |-> TRUE, lone_pass |-> TRUE, marker |-> FALSE, phrase |-> FALSE],
     [stripped_len |-> PlaceholderMaxLen, compiles |-> TRUE, lone_pass |-> FALSE, marker |-> FALSE, phrase |-> FALSE]}

Notebooks ==
    {UnreadableNotebook}
    \cup {Notebook(solutions) :
            solutions \in UNION {[1..k -> NotebookCodes] : k \in 0..EXPECTED_TASK_COUNT}}

\* oracle responses offered while an assignment is marked
MarkResponses ==
    {[score |-> Str(<<"1">>), reasoning |-> Str(<<>>)],
     [score |-> Str(<<"1", "5">>), reasoning |-> NoneText]}

\* str(e) of what an oracle call raises while an assignment is marked
OracleFailures == {"timeout"}

\* str(e) of what _evaluate_task or the report writer raises
FailureMessages == {"disk full"}

MarkInit ==
    /\ pc = "idle"
    /\ max_points = 0
    /\ ParserIdle
    /\ EvaluatorConstructed
    /\ max_retries = 1
    /\ base_delay = 1
    /\ MarkerConstructed
    /\ BatchIdle
    /\ CliIdle
    /\ rubric_files \in [RubricPaths -> RubricFiles]

CallMarkAssignment ==
    /\ mark_pc = "idle"
    /\ marked = 0
    /\ \E notebook \in Notebooks, path \in RubricPaths :
          MarkAssignment("s1", notebook, path)

MarkOracleCallReturns ==
    /\ mark_pc = "tasks"
    /\ \E response \in MarkResponses : OracleReturns(response)

MarkOracleCallRaises ==
    /\ mark_pc = "tasks"
    /\ \E message \in OracleFailures : OracleRaises(message)

TaskRaises == \E detail \in FailureMessages : EvaluateTaskRaises(detail)

ReportGenerated == GenerateReport(None)

ReportFails == \E detail \in FailureMessages : GenerateReport(detail)

MarkNext ==
    \/ CallMarkAssignment
    \/ LoadRubric
    \/ MarkEvaluatesTask
    \/ TaskEvaluatesCriterion
    \/ Backoff
    \/ MarkOracleCallReturns
    \/ MarkOracleCallRaises
    \/ TaskTakesResult
    \/ MarkTakesTaskResult
    \/ TaskRaises
    \/ ReportGenerated
    \/ ReportFails
    \/ MarkFinished

MarkSpec == MarkInit /\ [][MarkNext]_vars

(***************************************************************************)
(* Specification of several mark_assignment calls on one AssignmentMarker  *)
(***************************************************************************)
\* notebooks with at most the first solution filled in
SessionNotebooks ==
    {UnreadableNotebook, Notebook(<<>>),
     Notebook(<<[stripped_len |-> PlaceholderMaxLen, compiles |-> TRUE,
                 lone_pass |-> FALSE, marker |-> FALSE, phrase |-> FALSE]>>)}

SessionResponses == {[score |-> Str(<<"1">>), reasoning |-> Str(<<>>)]}

CallMarkAssignmentAgain ==
    /\ mark_pc = "idle"
    /\ marked < MaxAssignments
    /\ \E notebook \in SessionNotebooks, path \in RubricPaths :
          MarkAssignment("s1", notebook, path)

SessionOracleCallReturns ==
    /\ mark_pc = "tasks"
    /\ \E response \in SessionResponses : OracleReturns(response)

SessionNext ==
    \/ CallMarkAssignmentAgain
    \/ LoadRubric
    \/ MarkEvaluatesTask
    \/ TaskEvaluatesCriterion
    \/ Backoff
    \/ SessionOracleCallReturns
    \/ MarkOracleCallRaises
    \/ TaskTakesResult
    \/ MarkTakesTaskResult
    \/ TaskRaises
    \/ ReportGenerated
    \/ ReportFails
    \/ MarkFinished

SessionSpec == MarkInit /\ [][SessionNext]_vars

(***************************************************************************)
(* Specification of one mark_batch call                                    *)
(***************************************************************************)
StudentIds == {"s1", "s2"}

\* rubric files behind the rubric path of a batch
BatchRubricFiles ==
    {UnreadableRubric, Rubric([n \in {2} |-> <<UsesALoop>>])}

\* notebooks of a batch: unreadable, or with the first solution filled in
BatchNotebooks ==
    {UnreadableNotebook,
     Notebook(<<[stripped_len |-> PlaceholderMaxLen, compiles |-> TRUE,
                 lone_pass |-> FALSE, marker |-> FALSE, phrase |-> FALSE]>>)}

AssignmentLists ==
    UNION {[1..k -> {Assignment(student_id, notebook) :
                        student_id \in StudentIds, notebook \in BatchNotebooks}] :
              k \in 0..MaxAssignments}

BatchInit ==
    /\ pc = "idle"
    /\ max_points = 0
    /\ ParserIdle
    /\ EvaluatorConstructed
    /\ max_retries = 0
    /\ base_delay = 1
    /\ MarkerConstructed
    /\ BatchIdle
    /\ CliIdle
    /\ rubric_files \in [RubricPaths -> BatchRubricFiles]

\* one mark_batch call on a fresh marker
CallMarkBatch ==
    /\ summaries = <<>>
    /\ \E assignment_list \in AssignmentLists, path \in RubricPaths :
          MarkBatch(assignment_list, path)

SummaryGenerated == GenerateBatchSummary(None)

SummaryFails == \E detail \in FailureMessages : GenerateBatchSummary(detail)

BatchNext ==
    \/ CallMarkBatch
    \/ BatchMarksAssignment
    \/ LoadRubric
    \/ MarkEvaluatesTask
    \/ TaskEvaluatesCriterion
    \/ MarkOracleCallRaises
    \/ SessionOracleCallReturns
    \/ TaskTakesResult
    \/ MarkTakesTaskResult
    \/ TaskRaises
    \/ ReportGenerated
    \/ ReportFails
    \/ BatchTakesResult
    \/ BatchTakesException
    \/ SummaryGenerated
    \/ SummaryFails
    \/ BatchFinished

BatchSpec == BatchInit /\ [][BatchNext]_vars

\* mark_batch is sequential code: whenever it can take a step it takes one,
\* and every oracle call of this specification returns or raises
BatchFairSpec == BatchSpec /\ WF_vars(BatchNext)

(***************************************************************************)
(* Specification of one mark_batch call whose oracle gives every call the  *)
(* same response and whose tasks and report writer never raise            *)
(***************************************************************************)
SameResponsesNext ==
    \/ CallMarkBatch
    \/ BatchMarksAssignment
    \/ LoadRubric
    \/ MarkEvaluatesTask
    \/ TaskEvaluatesCriterion
    \/ SessionOracleCallReturns
    \/ TaskTakesResult
    \/ MarkTakesTaskResult
    \/ ReportGenerated
    \/ BatchTakesResult
    \/ BatchTakesException
    \/ SummaryGenerated
    \/ BatchFinished

SameResponsesSpec == BatchInit /\ [][SameResponsesNext]_vars

(***************************************************************************)
(* Specification of two CriterionEvaluators and their signature caches     *)
(***************************************************************************)
\* two supported scales and an unsupported one
SignaturePoints == {2, 4, 5}

\* the criteria lists of MaxSignatureCalls criteria with these scales
SignatureCriteriaLists ==
    [1..MaxSignatureCalls -> [criterion : {"uses a loop"}, max_points : SignaturePoints]]

SignatureInit ==
    /\ Init
    /\ max_retries = 0
    /\ base_delay = 1

\* one _evaluate_task call with code that passes every pre-check
CallEvaluateTaskOnce ==
    /\ task_pc = "idle"
    /\ evaluations = 0
    /\ \E crits \in SignatureCriteriaLists :
          EvaluateTask(2, [stripped_len |-> PlaceholderMaxLen, compiles |-> TRUE,
                           lone_pass |-> FALSE, marker |-> FALSE, phrase |-> FALSE],
                       crits, "sum a list")

SignatureOracleCallReturns == \E response \in SessionResponses : OracleReturns(response)

SecondEvaluatorCalled ==
    \E mp \in SignaturePoints :
        /\ creations_of(second_evaluator.signature_creations, mp) < MaxSignatureCalls
        /\ SecondEvaluatorGetsSignature(mp)

SignatureNext ==
    \/ CallEvaluateTaskOnce
    \/ TaskEvaluatesCriterion
    \/ SignatureOracleCallReturns
    \/ OracleCallRaises
    \/ TaskTakesResult
    \/ SecondEvaluatorCalled

SignatureSpec == SignatureInit /\ [][SignatureNext]_vars

(***************************************************************************)
(* Specification of mark_assignment calls with several rubric paths, whose *)
(* files are rewritten between the calls                                   *)
(***************************************************************************)
CachePaths == {"rubric.csv", "other.csv"}

CacheRubricFiles ==
    {UnreadableRubric, Rubric(<<>>), Rubric([n \in {2} |-> <<UsesALoop>>])}

CacheInit ==
    /\ pc = "idle"
    /\ max_points = 0
    /\ ParserIdle
    /\ EvaluatorConstructed
    /\ max_retries = 0
    /\ base_delay = 1
    /\ MarkerConstructed
    /\ BatchIdle
    /\ CliIdle
    /\ rubric_files \in [CachePaths -> CacheRubricFiles]

CallMarkAssignmentWithPath ==
    /\ mark_pc = "idle"
    /\ marked < MaxAssignments
    /\ \E notebook \in BatchNotebooks, path \in CachePaths :
          MarkAssignment("s1", notebook, path)

\* somebody rewrites the file behind a rubric path while no assignment is
\* being marked
RubricFileRewritten ==
    /\ mark_pc = "idle"
    /\ \E path \in CachePaths, file \in CacheRubricFiles :
          rubric_files' = [rubric_files EXCEPT ![path] = file]
    /\ UNCHANGED <<mark_pc, marking, rubric_path, task_codes, notebook_issues, rubric_data,
                   rubric_issues, pending, report, sheet, mark_exception, _rubric_cache, marked,
                   rubric_parser_calls, belowMarkVars, outerVars>>

CacheNext ==
    \/ CallMarkAssignmentWithPath
    \/ RubricFileRewritten
    \/ LoadRubric
    \/ MarkEvaluatesTask
    \/ TaskEvaluatesCriterion
    \/ SessionOracleCallReturns
    \/ MarkOracleCallRaises
    \/ TaskTakesResult
    \/ MarkTakesTaskResult
    \/ ReportGenerated
    \/ MarkFinished

CacheSpec == CacheInit /\ [][CacheNext]_vars

(***************************************************************************)
(* Specification of one run of the cli command                             *)
(***************************************************************************)
\* command lines and environments; a file that is missing or has the wrong
\* suffix is taken as unreadable
Invocations ==
    {command \in [notebook_exists : BOOLEAN, notebook_suffix_ok : BOOLEAN,
                  notebook : BatchNotebooks,
                  rubric_exists : BOOLEAN, rubric_suffix_ok : BOOLEAN, rubric : RubricPaths,
                  output_dir_writable : BOOLEAN, dry_run : BOOLEAN, api_key_set : BOOLEAN,
                  interrupted : {FALSE}] :
        (~command.notebook_exists \/ ~command.notebook_suffix_ok)
            => command.notebook = UnreadableNotebook}

CliInit ==
    /\ pc = "idle"
    /\ max_points = 0
    /\ ParserIdle
    /\ EvaluatorConstructed
    /\ max_retries = 0
    /\ base_delay = 1
    /\ MarkerConstructed
    /\ BatchIdle
    /\ CliIdle
    /\ rubric_files \in [RubricPaths -> BatchRubricFiles]

CallCli == \E command \in Invocations : Cli(command)

CliNext ==
    \/ CallCli
    \/ RunDryRun
    \/ RunMarking
    \/ LoadRubric
    \/ MarkEvaluatesTask
    \/ TaskEvaluatesCriterion
    \/ MarkOracleCallRaises
    \/ SessionOracleCallReturns
    \/ TaskTakesResult
    \/ MarkTakesTaskResult
    \/ ReportGenerated
    \/ MarkingShown
    \/ MarkingFailed
    \/ Interrupted

CliSpec == CliInit /\ [][CliNext]_vars

(***************************************************************************)
(* Claims about parse_integer_answer (checked under ParseSpec)             *)
(***************************************************************************)
Text_First358 == <<"F", "i", "r", "s", "t", " ", "3", ",", " ", "t", "h", "e", "n", " ", "5", ",", " ", "f", "i", "n", "a", "l", "l", "y", " ", "8">>

Text_8OutOf10 == <<"T", "h", "e", " ", "s", "c", "o", "r", "e", " ", "i", "s", " ", "8", " ", "o", "u", "t", " ", "o", "f", " ", "1", "0">>

Text_NoNumbers == <<"n", "o", " ", "n", "u", "m", "b", "e", "r", "s", " ", "h", "e", "r", "e">>

\* C6: for max_points > 0 every call of parse_integer_answer returns (does
\* not raise) an integer in 0..max_points, and a repeated call with the same
\* arguments returns the same value.
C6_ParseClampedAndDeterministic ==
    (max_points > 0 /\ parse_calls > 0) =>
        /\ parsed.exc = "none"
        /\ parsed.value \in 0..max_points
        /\ parse_calls > 1 => parsed = prev_parsed

\* C6 witness: "15" parsed twice against a scale of 4 is clamped to 4.
C6_Witness ==
    /\ parse_calls = 2
    /\ answer = <<"1", "5">>
    /\ max_points = 4
    /\ parsed = Returned(4)
    /\ prev_parsed = parsed

\* The first line of the trimmed text, by positions: from the first
\* non-whitespace character up to the character before the next line feed.
ClaimFirstLine(a) ==
    LET nonws == {i \in 1..Len(a) : a[i] \notin Whitespace} IN
    IF nonws = {} THEN <<>>
    ELSE LET i0 == CHOOSE i \in nonws : \A j \in nonws : i <= j
             nl == {j \in i0..Len(a) : a[j] = "\n"}
             e  == IF nl = {} THEN Len(a)
                   ELSE (CHOOSE j \in nl : \A k \in nl : j <= k) - 1
         IN SubSeq(a, i0, e)

\* The maximal runs of non-whitespace characters holding at least one digit.
ClaimDigitRuns(line) ==
    {r \in (1..Len(line)) \X (1..Len(line)) :
        /\ r[1] <= r[2]
        /\ \A i \in r[1]..r[2] : line[i] \notin Whitespace
        /\ r[1] = 1 \/ line[r[1] - 1] \in Whitespace
        /\ r[2] = Len(line) \/ line[r[2] + 1] \in Whitespace
        /\ \E i \in r[1]..r[2] : isdigit(line[i])}

ClaimSelectedToken(line) ==
    LET runs == ClaimDigitRuns(line)
        r == CHOOSE x \in runs : \A y \in runs : y[1] <= x[1]
    IN SubSeq(line, r[1], r[2])

\* C7: with only_first_line (the default) the result is decided by the last
\* digit-bearing whitespace-separated token of the first line of the trimmed
\* text, and is 0 when that line has no such token.
C7_RightmostNumericToken ==
    (parse_calls > 0 /\ only_first_line /\ max_points > 0) =>
        LET line == ClaimFirstLine(answer) IN
        /\ ClaimDigitRuns(line) = {} => parsed = Returned(0)
        /\ ClaimDigitRuns(line) # {} =>
              /\ last_token(answer, TRUE) = ClaimSelectedToken(line)
              /\ parsed = parse_integer_answer(ClaimSelectedToken(line), TRUE, max_points)
        /\ (max_points = 10 /\ answer = Text_First358) => parsed = Returned(8)
        /\ (max_points = 10 /\ answer = Text_8OutOf10) => parsed = Returned(10)
        /\ (max_points = 10 /\ answer = Text_NoNumbers) => parsed = Returned(0)

\* C7 witness: 'First 3, then 5, finally 8' parsed to 8 on the 0-10 scale.
C7_Witness ==
    /\ parse_calls > 0
    /\ only_first_line
    /\ max_points = 10
    /\ answer = Text_First358
    /\ parsed = Returned(8)

\* The digits the claim keeps from a token: one leading minus dropped, cut at
\* the first '.', then at the first '/', non-digits removed.
ClaimDigits(token) ==
    LET t1 == IF token # <<>> /\ Head(token) = "-" THEN Tail(token) ELSE token
        t2 == split_first(t1, ".")
        t3 == split_first(t2, "/")
    IN SelectSeq(t3, isdigit)

ClaimTokenOf(a, first) ==
    LET toks == SelectSeq(split(IF first THEN ClaimFirstLine(a) ELSE a), has_digit)
    IN IF toks = <<>> THEN <<>> ELSE toks[Len(toks)]

\* C8 as stated: the digits left after normalisation are read as an integer
\* and clamped; 0 only if no digit is left.
C8_Original ==
    (parse_calls > 0 /\ max_points > 0) =>
        LET digits == ClaimDigits(ClaimTokenOf(answer, only_first_line)) IN
        parsed = Returned(IF digits = <<>> THEN 0
                          ELSE Max(0, Min(DecimalValue(digits), max_points)))

\* C8 amended: as C8, and the result is also 0 when a digit character that is
\* kept is not a decimal digit, so that the integer conversion fails.
C8_TokenNormalisation ==
    (parse_calls > 0 /\ max_points > 0) =>
        LET digits == ClaimDigits(ClaimTokenOf(answer, only_first_line)) IN
        /\ parsed = Returned(
              IF digits = <<>> \/ \E i \in 1..Len(digits) : digits[i] \notin DecimalChars
              THEN 0
              ELSE Max(0, Min(DecimalValue(digits), max_points)))
        /\ (max_points = 10 /\ answer = <<"-", "5">>) => parsed = Returned(5)
        /\ (max_points = 10 /\ answer = <<"7", "/", "1", "0">>) => parsed = Returned(7)
        /\ (max_points = 10 /\ answer = <<"7", ".", "9">>) => parsed = Returned(7)
        /\ (max_points = 10 /\ answer = <<"1", "5">>) => parsed = Returned(10)

\* C8 witness: '7/10' parsed to 7 on the 0-10 scale.
C8_Witness ==
    /\ parse_calls > 0
    /\ max_points = 10
    /\ answer = <<"7", "/", "1", "0">>
    /\ parsed = Returned(7)

(***************************************************************************)
(* Claims about evaluate_criterion (checked under Spec)                    *)
(***************************************************************************)
Finished == pc \in {"returned", "raised"}

IsCall(e) == e.kind = "call"

IsSleep(e) == e.kind = "sleep"

NumCalls == Len(SelectSeq(trace, IsCall))

NumSleeps == Len(SelectSeq(trace, IsSleep))

EveryCallRaised == \A i \in 1..Len(trace) : IsCall(trace[i]) => trace[i].raised

\* the five pre-check conditions, in the order the claims list them
ClaimPreChecks ==
    << [match |-> code.stripped_len = 0, error |-> "EMPTY_CODE", confidence |-> Tenths(10)],
       [match |-> criterion \in BlankStrings, error |-> "EMPTY_CRITERION", confidence |-> 0],
       [match |-> max_points <= 0, error |-> "INVALID_MAX_POINTS", confidence |-> 0],
       [match |-> ~code.compiles, error |-> "SYNTAX_ERROR", confidence |-> Tenths(10)],
       [match |-> code.lone_pass \/ (code.marker /\ code.stripped_len < 50),
        error |-> "PLACEHOLDER_CODE", confidence |-> Tenths(10)] >>

ClaimPreCheckFires == \E i \in 1..5 : ClaimPreChecks[i].match

\* C1: evaluate_criterion never leaves with an exception, whatever its
\* arguments and whatever the oracle does.
C1_NeverRaises == pc # "raised"

\* C2: when no pre-check fires and every oracle call raises, a finished
\* evaluate_criterion has made exactly max_retries + 1 oracle calls and has
\* returned score 0, confidence 0.0, raw_response "", retry_count =
\* max_retries and the message of the last failed call as error.
C2_RetryCeiling ==
    (Finished /\ ~ClaimPreCheckFires /\ EveryCallRaised) =>
        /\ pc = "returned"
        /\ NumCalls = max_retries + 1
        /\ result.error # None
        /\ result = EvaluationResult(0, 0, Literal(""), trace[Len(trace)].message, max_retries)

\* the sleeps and calls alternate, starting with a call; the k-th sleep
\* follows a failed call and lasts min(base_delay * 2^(k-1), max_delay)
ClaimSchedule ==
    \A i \in 1..Len(trace) :
        IF i % 2 = 1
        THEN IsCall(trace[i])
        ELSE /\ IsSleep(trace[i])
             /\ trace[i - 1].raised
             /\ LET d == base_delay * 2 ^ ((i \div 2) - 1) IN
                trace[i].delay = (IF d < max_delay THEN d ELSE max_delay)

\* C3 as stated: the backoff schedule, and in every finished evaluation the
\* number of sleeps is the number of oracle calls minus one.
C3_Original ==
    /\ ClaimSchedule
    /\ Finished => NumSleeps = NumCalls - 1

\* C3 amended: the backoff schedule; a finished evaluation that made at least
\* one oracle call ended with a call and slept one time less than it called;
\* an evaluation without oracle call never sleeps.
C3_BackoffSchedule ==
    /\ ClaimSchedule
    /\ (Finished /\ NumCalls > 0) =>
          (IsCall(trace[Len(trace)]) /\ NumSleeps = NumCalls - 1)
    /\ NumCalls = 0 => NumSleeps = 0

\* C3 witness: two retries, the second one after a sleep capped at max_delay.
C3_Witness ==
    /\ pc = "returned"
    /\ NumCalls = 3
    /\ NumSleeps = 2
    /\ trace[2].delay = base_delay
    /\ trace[4].delay = max_delay
    /\ base_delay * 2 > max_delay

\* C4: a finished evaluate_criterion whose arguments match a pre-check has
\* returned score 0 with the error and confidence of the first pre-check that
\* matches, in the order empty code, empty criterion, max_points <= 0, syntax
\* error, placeholder.
C4_PreCheckOrder ==
    Finished =>
        \A i \in 1..5 :
            (ClaimPreChecks[i].match /\ \A j \in 1..(i - 1) : ~ClaimPreChecks[j].match) =>
                /\ pc = "returned"
                /\ result.score = 0
                /\ result.error = ClaimPreChecks[i].error
                /\ result.confidence = ClaimPreChecks[i].confidence

\* C4 witness: short code with a placeholder marker that does not compile is
\* reported as SYNTAX_ERROR.
C4_Witness ==
    /\ pc = "returned"
    /\ ~code.compiles
    /\ code.marker
    /\ code.stripped_len < 50
    /\ criterion \notin BlankStrings
    /\ max_points > 0
    /\ result.error = "SYNTAX_ERROR"

\* C5: an evaluation whose arguments match a pre-check makes no oracle call
\* and no sleep and returns retry_count 0; the oracle is only called for
\* non-empty code that compiles and is no placeholder, with a non-empty
\* criterion and max_points > 0.
C5_NoOracleAfterPreCheck ==
    /\ ClaimPreCheckFires => trace = <<>>
    /\ (Finished /\ ClaimPreCheckFires) => (pc = "returned" /\ result.retry_count = 0)
    /\ NumCalls > 0 =>
          /\ code.stripped_len > 0
          /\ code.compiles
          /\ ~code.lone_pass
          /\ ~(code.marker /\ code.stripped_len < 50)
          /\ criterion \notin BlankStrings
          /\ max_points > 0

\* C5 witness: code that does not compile was resolved without oracle call.
C5_Witness ==
    /\ pc = "returned"
    /\ code.stripped_len > 0
    /\ ~code.compiles
    /\ criterion \notin BlankStrings
    /\ max_points > 0
    /\ result.error = "SYNTAX_ERROR"
    /\ result.retry_count = 0
    /\ trace = <<>>

\* C9 as stated: every returned EvaluationResult has 0 <= score <= max_points,
\* 0.0 <= confidence <= 1.0 and retry_count >= 0.
C9_Original ==
    pc = "returned" =>
        /\ 0 <= result.score
        /\ result.score <= max_points
        /\ result.confidence \in Tenths(0)..Tenths(10)
        /\ result.retry_count >= 0

\* C9 amended: every returned EvaluationResult has score >= 0, score <=
\* max_points whenever max_points >= 0 (for a negative max_points the score is
\* 0), 0.0 <= confidence <= 1.0 and retry_count >= 0.
C9_ResultRanges ==
    pc = "returned" =>
        /\ 0 <= result.score
        /\ max_points >= 0 => result.score <= max_points
        /\ max_points < 0 => result.score = 0
        /\ result.confidence \in Tenths(0)..Tenths(10)
        /\ result.retry_count >= 0

\* C9 witness: after a retry the oracle answered '15' on a smaller scale and
\* the returned score is the scale's maximum.
C9_Witness ==
    /\ pc = "returned"
    /\ result.error = None
    /\ result.retry_count > 0
    /\ result.raw_response.score = Str(<<"1", "5">>)
    /\ result.score = max_points
    /\ max_points < 15

(***************************************************************************)
(* Claims about _evaluate_task (checked under TaskSpec)                    *)
(***************************************************************************)
RECURSIVE SumUnflaggedScores(_)
SumUnflaggedScores(records) ==
    IF records = <<>> THEN 0
    ELSE (IF Head(records).error_flag = None THEN Head(records).score ELSE 0)
         + SumUnflaggedScores(Tail(records))

C11_MissingTaskPropagation ==
    task_pc = "done" =>
        IF task_result.code.stripped_len = 0
        THEN /\ task_result.missing
             /\ task_result.total_score = 0
             /\ task_result.max_points = SumMaxPoints(criteria)
             /\ Len(task_result.criteria_results) = Len(criteria)
             /\ \A i \in 1..Len(criteria) :
                   /\ task_result.criteria_results[i].score = 0
                   /\ task_result.criteria_results[i].error_flag = "MISSING_TASK"
             /\ task_result.issues =
                   <<Issue(task_result.task_number, 0, "MISSING_TASK", None)>>
             /\ evaluations = 0
             /\ stats.total_api_calls = 0
             /\ trace = <<>>
        ELSE ~task_result.missing

\* C11 witness: a missing task with two criteria worth points has returned.
C11_Witness ==
    /\ task_pc = "done"
    /\ task_result.missing
    /\ Len(task_result.criteria_results) = 2
    /\ task_result.max_points = 7
    /\ task_result.criteria_results[2].error_flag = "MISSING_TASK"

\* C12: for code that is not missing, an EvaluationResult whose error is not
\* None yields a flagged record and exactly one issue (EMPTY_CODE and
\* PLACEHOLDER_CODE as INCOMPLETE_CODE; SYNTAX_ERROR as PARSING_ERROR with an
\* issue naming SYNTAX_ERROR; any other message as PARSING_ERROR with the
\* message in the issue), and an EvaluationResult whose error is None yields
\* no flag and no issue.
C12_FlagMapping ==
    [][(task_pc = "loop" /\ pc = "returned") =>
        LET n == task_result.task_number
            rec == task_result'.criteria_results[idx + 1]
            new_issues == SubSeq(task_result'.issues, Len(task_result.issues) + 1,
                                 Len(task_result'.issues))
        IN  IF result.error = None
            THEN rec.error_flag = None /\ new_issues = <<>>
            ELSE IF result.error \in {"EMPTY_CODE", "PLACEHOLDER_CODE"}
            THEN /\ rec.error_flag = "INCOMPLETE_CODE"
                 /\ new_issues = <<Issue(n, idx + 1, "INCOMPLETE_CODE", None)>>
            ELSE IF result.error = "SYNTAX_ERROR"
            THEN /\ rec.error_flag = "PARSING_ERROR"
                 /\ new_issues = <<Issue(n, idx + 1, "SYNTAX_ERROR", None)>>
            ELSE /\ rec.error_flag = "PARSING_ERROR"
                 /\ new_issues = <<Issue(n, idx + 1, "PARSING_ERROR", result.error)>>]_vars

\* the records so far are those of the first criteria, in rubric order
ClaimRecordsFollowRubric ==
    /\ Len(task_result.criteria_results) <= Len(criteria)
    /\ \A i \in 1..Len(task_result.criteria_results) :
          /\ task_result.criteria_results[i].criterion_index = i - 1
          /\ task_result.criteria_results[i].criterion = criteria[i].criterion
          /\ task_result.criteria_results[i].max_points = criteria[i].max_points

ClaimOneRecordPerCriterion ==
    /\ task_pc \in {"idle", "loop", "done"}
    /\ ClaimRecordsFollowRubric
    /\ task_pc = "loop" => Len(task_result.criteria_results) = idx
    /\ task_pc = "done" => Len(task_result.criteria_results) = Len(criteria)

\* the step the task takes when evaluate_criterion has raised
ClaimRaiseIsRecorded ==
    (task_pc = "loop" /\ pc = "raised") =>
        /\ task_pc' = (IF idx + 1 < Len(criteria) THEN "loop" ELSE "done")
        /\ idx' = idx + 1
        /\ Len(task_result'.criteria_results) = idx + 1
        /\ task_result'.criteria_results[idx + 1].score = 0
        /\ task_result'.criteria_results[idx + 1].error_flag = "PARSING_ERROR"
        /\ task_result'.issues =
              Append(task_result.issues,
                     Issue(task_result.task_number, idx + 1, "PARSING_ERROR", exception))
        /\ task_result'.total_score = task_result.total_score

\* C13: when the evaluator raises for a criterion, _evaluate_task does not
\* raise: it records score 0 with PARSING_ERROR and one issue for that
\* criterion and goes on with the next; so a returned task has exactly one
\* record per rubric criterion, in rubric order, each with criterion_index
\* equal to its 0-based position.
C13_EvaluatorExceptionContained ==
    []ClaimOneRecordPerCriterion /\ [][ClaimRaiseIsRecorded]_vars

\* C13 witness: a task has returned whose first criterion made the evaluator
\* raise and whose second criterion was scored by the oracle.
C13_Witness ==
    /\ task_pc = "done"
    /\ ~task_result.missing
    /\ Len(task_result.criteria_results) = 2
    /\ task_result.criteria_results[1].raw_response = Literal("Evaluation failed: {str(e)}")
    /\ task_result.criteria_results[2].error_flag = None
    /\ task_result.criteria_results[2].score = 1
    /\ stats.total_errors = 1

(***************************************************************************)
(* Claims about mark_assignment (checked under MarkSpec and SessionSpec)   *)
(***************************************************************************)
NotebookFailed == mark_pc = "raised" /\ mark_exception = "AssignmentMarkingError: notebook"

RubricFailed == mark_pc = "raised" /\ mark_exception = "AssignmentMarkingError: rubric"

\* a call that raised left no result, evaluated nothing and wrote no report
ClaimNothingDoneWhenRaised ==
    mark_pc = "raised" =>
        /\ NotebookFailed \/ RubricFailed
        /\ DOMAIN marking.task_results = {}
        /\ marking.total_score = 0
        /\ report = "none"
        /\ task_pc = "idle"
        /\ evaluations = 0
        /\ trace = <<>>
        /\ stats = [assignments_processed |-> 0, total_api_calls |-> 0, total_errors |-> 0]
        /\ NotebookFailed =>
              /\ rubric_data = EmptyDict
              /\ rubric_issues = <<>>
              /\ _rubric_cache = EmptyDict
        /\ RubricFailed => task_codes # EmptyDict

\* a rubric that cannot be loaded ends the call at once
ClaimRubricFailureRaises ==
    (/\ mark_pc = "rubric"
     /\ rubric_path \notin DOMAIN _rubric_cache
     /\ ~rubric_files[rubric_path].readable)
    => (mark_pc' = "raised" /\ mark_exception' = "AssignmentMarkingError: rubric")

\* C14: when the notebook or the rubric cannot be loaded, mark_assignment
\* raises AssignmentMarkingError and returns no MarkingResult; no task is
\* evaluated, no oracle call is made, no report is generated; the notebook
\* is loaded first, so when it fails the rubric is not loaded.
C14_FatalLoadFailures ==
    []ClaimNothingDoneWhenRaised /\ [][ClaimRubricFailureRaises]_vars

\* C14 witness: the notebook was loaded, then the rubric failed to load.
C14_Witness ==
    /\ RubricFailed
    /\ DOMAIN task_codes = ExpectedTasks
    /\ Len(notebook_issues) > 0

\* C15: the status of a returned MarkingResult is 'Failed - No Tasks
\* Processed' when task_results is empty; otherwise 'Completed - Zero Score'
\* when total_score is 0, however many issues there are; otherwise
\* 'Completed with Issues' when there are more than 2 issues (so with 3),
\* otherwise 'Completed' (so with exactly 2).
C15_StatusDecisionOrder ==
    mark_pc = "returned" =>
        /\ DOMAIN marking.task_results = {}
              => marking.status = "Failed - No Tasks Processed"
        /\ (DOMAIN marking.task_results # {} /\ marking.total_score = 0)
              => marking.status = "Completed - Zero Score"
        /\ (DOMAIN marking.task_results # {} /\ marking.total_score # 0
                /\ Len(marking.issues) > 2)
              => marking.status = "Completed with Issues"
        /\ (DOMAIN marking.task_results # {} /\ marking.total_score # 0
                /\ Len(marking.issues) <= 2)
              => marking.status = "Completed"
        /\ (marking.total_score > 0 /\ Len(marking.issues) = 2)
              => marking.status = "Completed"
        /\ (marking.total_score > 0 /\ Len(marking.issues) = 3)
              => marking.status = "Completed with Issues"

\* C15 witness: a result with a positive total and exactly two issues has
\* been returned as 'Completed'.
C15_Witness ==
    /\ mark_pc = "returned"
    /\ marking.total_score > 0
    /\ Len(marking.issues) = 2
    /\ marking.status = "Completed"

\* the issues of the tasks of a result, in ascending task order
RECURSIVE TaskIssues(_, _)
TaskIssues(task_results, keys) ==
    IF keys = <<>> THEN <<>>
    ELSE task_results[Head(keys)].issues \o TaskIssues(task_results, Tail(keys))

\* issues is base, followed by one report-failure issue when the report failed
ClaimIssuesAre(issues, base) ==
    IF report = "failed"
    THEN \E detail \in FailureMessages :
            issues = Append(base, Issue(0, 0, "Excel generation failed: {str(e)}", detail))
    ELSE issues = base

\* C16: the issues of every returned MarkingResult, also when the rubric
\* came from the rubric cache, are the notebook issues, then the issues of
\* the rubric, then the issues of each task in ascending task order,
\* followed only by a report-failure issue if the report failed.
C16_IssueAggregation ==
    mark_pc = "returned" =>
        ClaimIssuesAre(marking.issues,
                       notebook_issues
                       \o _validate_task_structure(rubric_data)
                       \o TaskIssues(marking.task_results,
                                     sorted(DOMAIN marking.task_results)))

AllPointsPositive(tasks) ==
    \A n \in DOMAIN tasks : \A i \in 1..Len(tasks[n]) : tasks[n][i].max_points > 0

\* C17: in a returned MarkingResult total_score is the sum of the
\* TaskResult.total_score values and max_points is the sum of max_points
\* over all rubric criteria, which is the sum of the TaskResult.max_points
\* values; when every criterion is worth a positive number of points,
\* 0 <= total_score <= max_points holds for each TaskResult and for the
\* MarkingResult.
C17_ScoreAggregation ==
    mark_pc = "returned" =>
        LET task_results == marking.task_results
            keys == sorted(DOMAIN task_results)
        IN  /\ marking.total_score =
                  SumOver([n \in DOMAIN task_results |-> task_results[n].total_score], keys)
            /\ marking.max_points = total_max_points(rubric_data)
            /\ marking.max_points =
                  SumOver([n \in DOMAIN task_results |-> task_results[n].max_points], keys)
            /\ AllPointsPositive(rubric_data) =>
                  /\ \A n \in DOMAIN task_results :
                        /\ 0 <= task_results[n].total_score
                        /\ task_results[n].total_score <= task_results[n].max_points
                  /\ 0 <= marking.total_score
                  /\ marking.total_score <= marking.max_points

\* C17 witness: two tasks were scored, one in full and one in part.
C17_Witness ==
    /\ mark_pc = "returned"
    /\ DOMAIN marking.task_results = {2, 3}
    /\ marking.task_results[2].total_score = marking.task_results[2].max_points
    /\ marking.task_results[3].total_score = 2
    /\ marking.total_score = 10
    /\ marking.max_points = 18

Range(seq) == {seq[i] : i \in 1..Len(seq)}

IsStub(tr) == \E i \in 1..Len(tr.issues) : tr.issues[i].kind = "PROCESSING_ERROR"

\* the tasks taken so far are the rubric tasks below those still to come
ClaimAscendingCoverage ==
    /\ \A i, j \in 1..Len(pending) : i < j => pending[i] < pending[j]
    /\ Range(pending) \subseteq DOMAIN rubric_data
    /\ DOMAIN marking.task_results = DOMAIN rubric_data \ Range(pending)
    /\ \A n \in DOMAIN marking.task_results : \A m \in Range(pending) : n < m

\* one task at a time, and only the next rubric task
ClaimOneTaskAtATime ==
    task_pc # "idle" =>
        /\ mark_pc = "tasks"
        /\ task_result.task_number = Head(pending)
        /\ task_result.code = code_of(task_codes, Head(pending))

\* every stored TaskResult is that of a rubric task and its notebook code
ClaimTaskCode ==
    \A n \in DOMAIN marking.task_results :
        LET tr == marking.task_results[n]
        IN  /\ tr.task_number = n
            /\ tr.code = code_of(task_codes, n)
            /\ (tr.code.stripped_len = 0 /\ ~IsStub(tr)) => tr.missing
            /\ (n \notin DOMAIN task_codes /\ ~IsStub(tr)) => tr.missing

\* C18: a returned MarkingResult has exactly the task numbers of the rubric
\* as keys of task_results; the tasks are evaluated one at a time in
\* ascending order; a rubric task for which the notebook mapping has no code
\* is evaluated with empty code and so marked missing; a notebook task that
\* the rubric does not name is never evaluated.
C18_TaskCoverageAndOrder ==
    /\ mark_pc \in {"tasks", "report", "returned"} => ClaimAscendingCoverage
    /\ mark_pc \in {"report", "returned"} =>
          DOMAIN marking.task_results = DOMAIN rubric_data
    /\ ClaimOneTaskAtATime
    /\ ClaimTaskCode

\* C18 witness: the rubric names task 3 only; the notebook holds a solution
\* for task 2 and none for task 3; task 3 alone was evaluated, as missing.
C18_Witness ==
    /\ mark_pc = "returned"
    /\ DOMAIN rubric_data = {3}
    /\ task_codes[2].stripped_len > 0
    /\ DOMAIN marking.task_results = {3}
    /\ marking.task_results[3].missing

\* a stub stands for a task whose evaluation raised
ClaimStubs ==
    \A n \in DOMAIN marking.task_results :
        LET tr == marking.task_results[n]
        IN  IsStub(tr) =>
              /\ mark_pc \in {"tasks", "report", "returned"}
              /\ tr.total_score = 0
              /\ tr.max_points = SumMaxPoints(rubric_data[n])
              /\ \E detail \in FailureMessages :
                    tr.issues = <<Issue(n, 0, "PROCESSING_ERROR", detail)>>
              /\ tr.issues[1] \in Range(marking.issues)

\* the step in which _evaluate_task raises: the loop leaves the task without
\* a TaskResult having been returned
ClaimTaskRaiseStep ==
    (mark_pc = "tasks" /\ task_pc # "done" /\ pending' = Tail(pending)) =>
        /\ Head(pending) \in DOMAIN marking'.task_results
        /\ IsStub(marking'.task_results[Head(pending)])
        /\ marking'.total_score = marking.total_score
        /\ marking'.issues = marking.issues \o marking'.task_results[Head(pending)].issues
        /\ mark_pc' = (IF Tail(pending) = <<>> THEN "report" ELSE "tasks")

\* C19: when the evaluation of one task raises, mark_assignment still
\* returns a MarkingResult; in it the task has a TaskResult with total_score
\* 0, max_points the sum over its criteria and the single issue
\* "Task N: PROCESSING_ERROR - <detail>", which is also among the issues of
\* the MarkingResult; every later task is still evaluated.
C19_TaskExceptionsNonFatal ==
    /\ []ClaimStubs
    /\ [](mark_pc = "returned" => DOMAIN marking.task_results = DOMAIN rubric_data)
    /\ [][ClaimTaskRaiseStep]_vars

\* C19 witness: the evaluation of task 2 raised, task 3 was evaluated after
\* it and scored, and the result was returned.
C19_Witness ==
    /\ mark_pc = "returned"
    /\ DOMAIN marking.task_results = {2, 3}
    /\ IsStub(marking.task_results[2])
    /\ ~IsStub(marking.task_results[3])
    /\ marking.task_results[3].total_score > 0
    /\ stats.total_errors = 1

\* the step in which the report writer raises
ClaimReportFailureStep ==
    (mark_pc = "report" /\ report' = "failed") =>
        /\ mark_pc' = "returned"
        /\ \E detail \in FailureMessages :
              marking'.issues =
                  Append(marking.issues,
                         Issue(0, 0, "Excel generation failed: {str(e)}", detail))
        /\ marking'.total_score = marking.total_score
        /\ marking'.max_points = marking.max_points
        /\ marking'.task_results = marking.task_results

\* C20: when report generation raises, mark_assignment still returns the
\* MarkingResult, with exactly one issue "Excel generation failed: <detail>"
\* appended and with total_score, max_points and task_results as they were
\* before the report step.
C20_ReportFailureNonFatal ==
    [][ClaimReportFailureStep]_vars

\* C20 witness: a scored assignment was returned although its report failed.
C20_Witness ==
    /\ mark_pc = "returned"
    /\ report = "failed"
    /\ marking.total_score > 0
    /\ DOMAIN marking.task_results = {2, 3}
    /\ marking.issues[Len(marking.issues)].kind = "Excel generation failed: {str(e)}"

(***************************************************************************)
(* Claims about mark_batch (checked under BatchSpec and BatchFairSpec)     *)
(***************************************************************************)
\* the student ids of a list of assignments
students_of(assignment_list) ==
    {assignment_list[k].student_id : k \in 1..Len(assignment_list)}

\* mark_assignment is called only by the loop of the batch, for the next
\* assignment of the list, and the loop moves on by one assignment only when
\* that call has returned or raised
ClaimBatchCallsInOrder ==
    /\ marked' # marked =>
          /\ marked' = marked + 1
          /\ batch_pc = "loop"
          /\ mark_pc = "idle"
          /\ position < Len(assignments)
          /\ marking'.student_id = assignments[position + 1].student_id
          /\ rubric_path' = batch_rubric_path
          /\ position' = position
    /\ (batch_pc = "loop" /\ position' # position) =>
          /\ position' = position + 1
          /\ mark_pc \in {"returned", "raised"}
          /\ mark_pc' = "idle"
          /\ marked' = marked
          /\ assignments' = assignments

\* the student whose marking raised gets the failed result, the student whose
\* marking returned gets the result returned, the others keep theirs, and
\* the loop goes on to the next assignment
ClaimBatchStoresResult ==
    (batch_pc = "loop" /\ position' # position) =>
        LET student_id == assignments[position + 1].student_id
        IN  /\ DOMAIN results' = DOMAIN results \cup {student_id}
            /\ \A other \in DOMAIN results \ {student_id} : results'[other] = results[other]
            /\ mark_pc = "returned" => results'[student_id] = marking
            /\ mark_pc = "raised" =>
                  /\ results'[student_id].student_id = student_id
                  /\ results'[student_id].status = "Failed - " \o mark_exception
                  /\ results'[student_id].total_score = 0
                  /\ results'[student_id].issues =
                         <<Issue(0, 0, "Critical error: {str(e)}", mark_exception)>>
            /\ batch_pc' = "loop"

\* what mark_batch returns: every assignment was taken, one MarkingResult
\* per student_id of the list
ClaimBatchReturns ==
    batch_pc = "returned" =>
        /\ position = Len(assignments)
        /\ mark_pc = "idle"
        /\ DOMAIN results = students_of(assignments)
        /\ \A student_id \in DOMAIN results : results[student_id].student_id = student_id

\* C21: for every list of assignments mark_batch terminates without raising,
\* having called mark_assignment once per assignment in list order; it
\* returns one MarkingResult per student_id; a student whose marking raised
\* gets status 'Failed - <reason>', total_score 0 and the issue
\* 'Critical error: <reason>', and every student after them is still marked.
C21_BatchResilience ==
    /\ [][ClaimBatchCallsInOrder /\ ClaimBatchStoresResult]_vars
    /\ []ClaimBatchReturns
    /\ (batch_pc = "loop") ~> (batch_pc = "returned")

\* the first student's notebook cannot be read, the second student is marked
C21_Witness ==
    /\ batch_pc = "returned"
    /\ Len(assignments) = 2
    /\ assignments[1].student_id = "s1"
    /\ assignments[2].student_id = "s2"
    /\ results["s1"].status = "Failed - AssignmentMarkingError: notebook"
    /\ results["s1"].issues # <<>>
    /\ results["s2"].max_points > 0
    /\ results["s2"].total_score > 0

\* the summary is generated by the step that ends the batch: every assignment
\* has been taken, the summary carries the four fields of every student of
\* the list, and whether the writer returns or raises, the batch returns
\* with its results as they were
ClaimSummaryStep ==
    summaries' # summaries =>
        /\ batch_pc = "loop"
        /\ mark_pc = "idle"
        /\ position = Len(assignments)
        /\ Len(summaries') = Len(summaries) + 1
        /\ LET handed == summaries'[Len(summaries')].summary
           IN  /\ DOMAIN handed = students_of(assignments)
               /\ \A student_id \in DOMAIN handed :
                     /\ student_id \in DOMAIN results
                     /\ handed[student_id].total_score = results[student_id].total_score
                     /\ handed[student_id].max_points = results[student_id].max_points
                     /\ handed[student_id].issues = results[student_id].issues
                     /\ handed[student_id].status = results[student_id].status
        /\ results' = results
        /\ batch_pc' = "returned"

\* no summary while the loop runs, one summary when the batch returns
ClaimOneSummary ==
    /\ batch_pc = "loop" => summaries = <<>>
    /\ batch_pc = "returned" => Len(summaries) = 1

\* C22: mark_batch generates the aggregate summary exactly once per batch,
\* only after every assignment has been processed, from total_score,
\* max_points, issues and status of every student including the failed ones;
\* a failure of the summary generation is swallowed and leaves the returned
\* results unchanged.
C22_BatchSummary == []ClaimOneSummary /\ [][ClaimSummaryStep]_vars

\* the summary writer raised on a batch with a failed and a marked student
C22_Witness ==
    /\ batch_pc = "returned"
    /\ Len(summaries) = 1
    /\ summaries[1].error # None
    /\ DOMAIN results = {"s1", "s2"}
    /\ results["s1"].status = "Failed - AssignmentMarkingError: notebook"
    /\ summaries[1].summary["s1"].status = "Failed - AssignmentMarkingError: notebook"
    /\ results["s2"].total_score > 0
    /\ summaries[1].summary["s2"].total_score = results["s2"].total_score

(***************************************************************************)
(* Claims about the rubric cache and the statistics (checked under         *)
(* CacheSpec)                                                              *)
(***************************************************************************)
\* a step made while mark_assignment is about to load the rubric
LoadsRubric == mark_pc = "rubric" /\ mark_pc' # "rubric"

\* a load of a path that is in the cache does not call the parser, returns
\* the stored data whatever the file holds by now, and leaves the cache alone
ClaimCacheHit ==
    (LoadsRubric /\ rubric_path \in DOMAIN _rubric_cache) =>
        /\ rubric_parser_calls' = rubric_parser_calls
        /\ _rubric_cache' = _rubric_cache
        /\ mark_pc' # "raised"
        /\ rubric_data' = _rubric_cache[rubric_path]
        /\ rubric_issues' = <<>>

\* a load of a path that is not in the cache calls the parser once; when the
\* parser returns, its data is returned and stored under the path; when it
\* raises, the load raises and nothing is stored
ClaimCacheMiss ==
    (LoadsRubric /\ rubric_path \notin DOMAIN _rubric_cache) =>
        /\ rubric_parser_calls'[rubric_path] = calls_for(rubric_parser_calls, rubric_path) + 1
        /\ \A path \in DOMAIN rubric_parser_calls \ {rubric_path} :
              rubric_parser_calls'[path] = rubric_parser_calls[path]
        /\ IF rubric_files[rubric_path].readable
           THEN /\ mark_pc' # "raised"
                /\ rubric_data' = rubric_files[rubric_path].tasks
                /\ DOMAIN _rubric_cache' = DOMAIN _rubric_cache \cup {rubric_path}
                /\ _rubric_cache'[rubric_path] = rubric_files[rubric_path].tasks
           ELSE /\ mark_pc' = "raised"
                /\ _rubric_cache' = _rubric_cache

\* the parser is called by loads only, and no step removes or replaces an
\* entry of the cache
ClaimCacheKeeps ==
    /\ rubric_parser_calls' # rubric_parser_calls => LoadsRubric
    /\ \A path \in DOMAIN _rubric_cache :
          /\ path \in DOMAIN _rubric_cache'
          /\ _rubric_cache'[path] = _rubric_cache[path]

\* a path in the cache has been parsed
ClaimCachedWasParsed ==
    \A path \in DOMAIN _rubric_cache : calls_for(rubric_parser_calls, path) >= 1

\* C23: the rubric parser is invoked at most once per distinct rubric path
\* that loads successfully, however many assignments are marked: the first
\* successful load stores the parsed rubric under its path, every later load
\* of that path returns the stored data, entries are never removed or
\* replaced, different paths are cached separately, and a load that fails
\* stores nothing, so that the next load of that path parses again.
C23_RubricCache ==
    /\ []ClaimCachedWasParsed
    /\ [][ClaimCacheHit /\ ClaimCacheMiss /\ ClaimCacheKeeps]_vars

\* the second assignment was marked with the stored rubric, although the
\* file behind the path had been rewritten
C23_Witness ==
    /\ marked = 2
    /\ mark_pc = "returned"
    /\ rubric_path \in DOMAIN _rubric_cache
    /\ rubric_parser_calls[rubric_path] = 1
    /\ rubric_data = _rubric_cache[rubric_path]
    /\ rubric_data # EmptyDict
    /\ rubric_files[rubric_path] # Rubric(rubric_data)

(***************************************************************************)
(* Claims about the statistics (checked under MarkSpec)                    *)
(***************************************************************************)
\* assignments_processed grows by one in the step that makes mark_assignment
\* return, and in no other step
ClaimProcessedStep ==
    /\ (mark_pc # "returned" /\ mark_pc' = "returned") =>
          stats'.assignments_processed = stats.assignments_processed + 1
    /\ ~(mark_pc # "returned" /\ mark_pc' = "returned") =>
          stats'.assignments_processed = stats.assignments_processed

\* total_api_calls grows by retry_count + 1 in the step that takes the
\* EvaluationResult of a criterion, and in no other step
ClaimApiCallsStep ==
    /\ (task_pc = "loop" /\ pc = "returned" /\ pc' = "idle") =>
          stats'.total_api_calls = stats.total_api_calls + result.retry_count + 1
    /\ ~(task_pc = "loop" /\ pc = "returned" /\ pc' = "idle") =>
          stats'.total_api_calls = stats.total_api_calls

ClaimNoCounterDecreases ==
    /\ stats'.assignments_processed >= stats.assignments_processed
    /\ stats'.total_api_calls >= stats.total_api_calls
    /\ stats'.total_errors >= stats.total_errors

\* the call on a fresh marker: counted when it has returned, not counted
\* when it has raised
ClaimProcessedCount ==
    /\ mark_pc = "returned" => stats.assignments_processed = 1
    /\ mark_pc = "raised" => stats.assignments_processed = 0

\* C24: each mark_assignment call that returns increases
\* assignments_processed by exactly 1 and total_api_calls by the sum of
\* retry_count + 1 over the criteria the criterion evaluator evaluated in
\* that call; a call that raises does not increase assignments_processed;
\* no counter ever decreases.
C24_Statistics ==
    /\ []ClaimProcessedCount
    /\ [][ClaimProcessedStep /\ ClaimApiCallsStep /\ ClaimNoCounterDecreases]_vars

\* a returned call with two criteria evaluated, one of them at the second try
C24_Witness ==
    /\ mark_pc = "returned"
    /\ stats.assignments_processed = 1
    /\ DOMAIN marking.task_results = {2}
    /\ Len(marking.task_results[2].criteria_results) = 2
    /\ ~marking.task_results[2].missing
    /\ stats.total_api_calls = 3

(***************************************************************************)
(* Claims about the confidence and the pre-checks of evaluate_criterion    *)
(* (checked under Spec)                                                    *)
(***************************************************************************)
\* evaluate_criterion has returned what it made of an oracle response
OracleAnswered ==
    /\ pc = "returned"
    /\ result.error = None
    /\ result.raw_response.fmt = "Score: {raw_score} | Reasoning: {raw_reasoning}"

\* the text of an attribute of the response as the confidence checks read it
ClaimText(attribute) == IF attribute.is_none THEN <<>> ELSE attribute.text

ClaimBothEmpty ==
    /\ ClaimText(result.raw_response.score) = <<>>
    /\ ClaimText(result.raw_response.reasoning) = <<>>

ClaimScoreNotNumeric ==
    LET stripped == strip(ClaimText(result.raw_response.score))
    IN  stripped = <<>> \/ ~float_ok(stripped)

ClaimReasoningShort == Len(strip(ClaimText(result.raw_response.reasoning))) < 10

ClaimStatedNumber ==
    parse_integer_answer(str(result.raw_response.score), TRUE, 1000).value

\* what the checks of the score text and of the reasoning give
ClaimOtherChecks ==
    IF ClaimBothEmpty THEN Tenths(3) + 1
    ELSE IF ClaimScoreNotNumeric /\ ClaimReasoningShort THEN Tenths(5) - 1
    ELSE IF ClaimScoreNotNumeric THEN Tenths(7)
    ELSE IF ClaimReasoningShort THEN Tenths(8)
    ELSE Tenths(10)

\* C26: whenever the number stated in the score text of the oracle lies
\* outside [0, max_points] before clamping, the confidence of the
\* EvaluationResult that evaluate_criterion returns is 0.3 lower (floored at
\* 0.0) than what the other confidence checks give.
C26_OutOfRangePenalty ==
    (OracleAnswered /\ ClaimStatedNumber > max_points) =>
        result.confidence = Max(Tenths(0), float_sub(ClaimOtherChecks, 3))

\* a call whose code is not empty and compiles, with a criterion that is not
\* empty and positive max_points
PlaceholderCheckReached ==
    /\ pc # "idle"
    /\ code.stripped_len > 0
    /\ code.compiles
    /\ criterion \notin BlankStrings
    /\ max_points > 0

PlaceholderReturned == pc = "returned" /\ result.error = "PLACEHOLDER_CODE"

\* the call has reached the oracle: a call is due, or one has been made
SentToOracle ==
    \/ pc = "call"
    \/ \E k \in 1..Len(trace) : trace[k].kind = "call"

ValidCode(c) ==
    /\ c.stripped_len > 0
    /\ c.compiles
    /\ ~(c.lone_pass \/ (c.marker /\ c.stripped_len < 50))

UnsupportedScale(mp) == mp > 0 /\ mp \notin {1, 2, 3, 4, 6, 10}

\* the running evaluation of such a criterion has raised at once: no oracle
\* call, no sleep, no result
ClaimFailsFast ==
    (pc # "idle" /\ ValidCode(code) /\ criterion \notin BlankStrings
       /\ UnsupportedScale(max_points)) =>
        /\ pc = "raised"
        /\ trace = <<>>
        /\ result = NoResult

\* the record the task keeps for such a criterion has score 0 and an error
\* flag
ClaimFailedRecord ==
    \A k \in 1..Len(task_result.criteria_results) :
        LET record == task_result.criteria_results[k]
        IN  (ValidCode(task_result.code) /\ record.criterion \notin BlankStrings
               /\ UnsupportedScale(record.max_points)) =>
                /\ record.score = 0
                /\ record.error_flag # None

AllTasksMissing ==
    /\ rubric_data # EmptyDict
    /\ \A n \in DOMAIN rubric_data : code_of(task_codes, n).stripped_len = 0

\* no exception has left _evaluate_task
NoTaskRaised ==
    \A k \in 1..Len(marking.issues) : marking.issues[k].kind # "PROCESSING_ERROR"

\* the oracle is never called while such an assignment is marked
ClaimNoOracleCall ==
    (mark_pc \in {"tasks", "report", "returned"} /\ AllTasksMissing) =>
        /\ pc = "idle"
        /\ trace = <<>>
        /\ stats.total_api_calls = 0

ClaimAllMissingResult ==
    (mark_pc = "returned" /\ AllTasksMissing /\ NoTaskRaised) =>
        /\ marking.total_score = 0
        /\ marking.max_points = total_max_points(rubric_data)
        /\ DOMAIN marking.task_results = DOMAIN rubric_data
        /\ \A n \in DOMAIN rubric_data :
              /\ marking.task_results[n].missing
              /\ \E k \in 1..Len(marking.issues) :
                    marking.issues[k] = Issue(n, 0, "MISSING_TASK", None)
        /\ marking.status = "Completed - Zero Score"

\* C29: an assignment whose notebook has empty code for every task of the
\* rubric yields total_score 0, max_points equal to the total of the rubric,
\* missing = true for every task result, the issue 'Task n: MISSING_TASK'
\* for each task, status 'Completed - Zero Score', and no oracle call.
C29_AllTasksMissing == ClaimNoOracleCall /\ ClaimAllMissingResult

\* an empty notebook marked against a rubric with two tasks
C29_Witness ==
    /\ mark_pc = "returned"
    /\ AllTasksMissing
    /\ NoTaskRaised
    /\ DOMAIN rubric_data = {2, 3}
    /\ marking.max_points = 18
    /\ marking.task_results[2].missing
    /\ marking.task_results[3].missing
    /\ marking.status = "Completed - Zero Score"

(***************************************************************************)
(* Claims about the exit code of the cli command (checked under CliSpec)   *)
(***************************************************************************)
\* a file the command names is missing, has the wrong suffix or cannot be
\* parsed
ClaimBadFiles ==
    \/ ~invocation.notebook_exists
    \/ ~invocation.notebook_suffix_ok
    \/ ~invocation.notebook.readable
    \/ ~invocation.rubric_exists
    \/ ~invocation.rubric_suffix_ok
    \/ ~rubric_files[invocation.rubric].readable

\* C30: the cli exits with 0 only when the run, marking or dry run, finished
\* without a fatal error; it exits with a non-zero code when the notebook or
\* the rubric file is missing or invalid, when OPENAI_API_KEY is missing and
\* the run is no dry run, and when an exception leaves mark_assignment; it
\* exits with 130 on a user interrupt.
C30_ExitCodes ==
    cli_pc = "exited" =>
        /\ invocation.interrupted => exit_code = 130
        /\ ClaimBadFiles => exit_code # 0
        /\ (~invocation.dry_run /\ ~invocation.api_key_set) => exit_code # 0
        /\ mark_pc = "raised" => exit_code # 0
        /\ exit_code = 0 =>
              /\ ~invocation.interrupted
              /\ ~ClaimBadFiles
              /\ invocation.dry_run \/ mark_pc = "returned"

(***************************************************************************)
(* Claims about a successful oracle call (checked under Spec)              *)
(***************************************************************************)
\* the positions in trace of the oracle calls that returned
ReturnedCalls == {i \in 1..Len(trace) : IsCall(trace[i]) /\ ~trace[i].raised}

\* the number of oracle calls made before position i of trace
CallsBefore(i) == Len(SelectSeq(SubSeq(trace, 1, i - 1), IsCall))

\* C31: if oracle call number k (0-based, k <= max_retries) is the first one
\* that returns, evaluate_criterion returns at once with error None and
\* retry_count = k, the number of failed calls before it, having slept exactly
\* k times, and it makes no further oracle call.
C31_SuccessAfterRetries ==
    \A i \in ReturnedCalls :
        LET k == CallsBefore(i) IN
        /\ k <= max_retries
        /\ \A j \in 1..(i - 1) : IsCall(trace[j]) => trace[j].raised
        /\ pc = "returned"
        /\ i = Len(trace)
        /\ result.error = None
        /\ result.retry_count = k
        /\ NumSleeps = k

\* C31 witness: the third oracle call is the first that returns.
C31_Witness ==
    /\ pc = "returned"
    /\ NumCalls = 3
    /\ ~trace[Len(trace)].raised
    /\ result.retry_count = 2
    /\ NumSleeps = 2

(***************************************************************************)
(* Claims about malformed oracle output (checked under TaskSpec)           *)
(***************************************************************************)
\* an attribute of the response is empty: None or the empty text
ClaimEmpty(attribute) == attribute.is_none \/ attribute.text = <<>>

\* the response has an empty score, a score that is no number, or an empty
\* reasoning
ClaimMalformed(raw_response) ==
    \/ ClaimEmpty(raw_response.score)
    \/ ~float_ok(strip(raw_response.score.text))
    \/ ClaimEmpty(raw_response.reasoning)

\* a returned oracle call gives error None and a score in range, and a
\* malformed response a confidence below 1.0
ClaimReturnedCallResult ==
    ReturnedCalls # {} =>
        /\ pc = "returned"
        /\ result.error = None
        /\ result.score \in 0..max_points
        /\ ClaimMalformed(result.raw_response) => result.confidence < Tenths(10)

\* _evaluate_task adds the score of such a result to the total of the task
\* and records it without error flag
ClaimScoreCounts ==
    (task_pc = "loop" /\ ReturnedCalls # {}) =>
        /\ task_result'.total_score = task_result.total_score + result.score
        /\ Len(task_result'.criteria_results) = Len(task_result.criteria_results) + 1
        /\ LET recorded == task_result'.criteria_results[Len(task_result'.criteria_results)]
           IN /\ recorded.error_flag = None
              /\ recorded.score = result.score

MarkerAtRest == mark_pc \in {"idle", "returned", "raised"}

\* C33: after any sequence of mark_assignment calls on one AssignmentMarker,
\* the total_api_calls statistic equals the number of oracle calls its criterion
\* evaluator has actually made (criteria resolved by a pre-check, criteria of
\* missing tasks and criteria whose evaluation raised included).
C33_ApiCallsAreOracleCalls ==
    MarkerAtRest => stats.total_api_calls = oracle_calls

\* C34: after any sequence of mark_assignment calls, the total_errors
\* statistic equals the number of criterion evaluations that ended in failure
\* (the evaluator raised, or every retry was exhausted) plus the number of
\* tasks whose evaluation raised.
C34_ErrorsAreFailures ==
    MarkerAtRest => stats.total_errors = failures.evaluations + failures.tasks

(***************************************************************************)
(* Claims about the order of the assignments (checked under                *)
(* SameResponsesSpec)                                                      *)
(***************************************************************************)
\* the positions in assignments whose result is stored and belongs to them
\* alone: the student appears once in the list
ClaimStored ==
    {i \in 1..position :
        \A j \in 1..Len(assignments) :
            assignments[j].student_id = assignments[i].student_id => j = i}

\* C35: marking the same notebook against the same rubric with the same
\* oracle responses yields the same total_score, issues and status whether it
\* is the first assignment an AssignmentMarker marks or a later one.
C35_PositionIndependence ==
    batch_pc \in {"loop", "returned"} =>
        \A i \in ClaimStored, j \in ClaimStored :
            (i = 1 /\ assignments[j].notebook = assignments[i].notebook) =>
                LET first == results[assignments[i].student_id]
                    later == results[assignments[j].student_id]
                IN  /\ later.total_score = first.total_score
                    /\ later.issues = first.issues
                    /\ later.status = first.status

(***************************************************************************)
(* Claims about the issues of missing tasks (checked under MarkSpec)       *)
(***************************************************************************)
\* the entries "Task n: MISSING_TASK" of a list of issues
ClaimMissingEntries(issues, n) ==
    {i \in 1..Len(issues) : issues[i] = Issue(n, 0, "MISSING_TASK", None)}

\* the rubric tasks of the running call whose code is missing from the notebook
ClaimMissingRubricTasks ==
    {n \in DOMAIN rubric_data : n \notin DOMAIN task_codes \/ task_codes[n].stripped_len = 0}

\* C36: for every rubric task whose code is missing from the notebook, the
\* issues of the MarkingResult mark_assignment returns contain exactly one
\* entry "Task N: MISSING_TASK", the notebook parser reporting its own issues
\* for the tasks it could not find.
C36_OneMissingTaskIssue ==
    mark_pc = "returned" =>
        \A n \in ClaimMissingRubricTasks :
            Cardinality(ClaimMissingEntries(marking.issues, n)) = 1

(***************************************************************************)
(* Claims about the totals of the report (checked under MarkSpec)          *)
(***************************************************************************)
\* C37: for the criteria records mark_assignment hands to the report writer,
\* the subtotal the writer computes for a task (the sum of the scores of the
\* rows without error_flag) equals the total_score of the TaskResult, and its
\* grand total equals the total_score of the MarkingResult, for every
\* combination of flagged and unflagged criteria and for tasks that ended as
\* PROCESSING_ERROR stubs.
C37_ReportTotalsAgree ==
    report = "generated" =>
        /\ DOMAIN marking.task_results \subseteq DOMAIN sheet.subtotals
        /\ \A n \in DOMAIN marking.task_results :
              /\ sheet.subtotals[n] = marking.task_results[n].total_score
              /\ sheet.subtotals[n]
                    = SumUnflaggedScores(marking.task_results[n].criteria_results)
        /\ sheet.grand_total_score = marking.total_score

\* C37 witness: a report for a task with an unflagged criterion that scored
\* and a flagged one, and for a task that ended as a stub.
C37_Witness ==
    /\ report = "generated"
    /\ DOMAIN marking.task_results = {2, 3}
    /\ Len(marking.task_results[2].criteria_results) = 2
    /\ marking.task_results[2].criteria_results[1].error_flag = None
    /\ marking.task_results[2].criteria_results[1].score > 0
    /\ marking.task_results[2].criteria_results[2].error_flag # None
    /\ IsStub(marking.task_results[3])
    /\ sheet.grand_total_score > 0

(***************************************************************************)
(* Claims about the signature cache (checked under SignatureSpec)          *)
(***************************************************************************)
\* at most one instance was created for each max_points, the cache holds
\* the max_points an instance was created for, and none that is unsupported
ClaimOneInstance(cache, creations) ==
    /\ \A mp \in DOMAIN creations : creations[mp] <= 1
    /\ cache = {mp \in DOMAIN creations : creations[mp] = 1}
    /\ cache \subseteq {1, 2, 3, 4, 6, 10}

\* an evaluation with a cached max_points reaches the oracle without a new
\* instance
ClaimReuse ==
    (pc = "idle" /\ pc' = "call" /\ max_points' \in signature_cache) =>
        UNCHANGED <<signature_cache, signature_creations>>

\* an evaluation that raises stores nothing
ClaimFailureStoresNothing ==
    (pc = "idle" /\ pc' = "raised") =>
        UNCHANGED <<signature_cache, signature_creations>>

\* a step that changes the cache of one evaluator leaves the other's alone
ClaimIndependent ==
    /\ <<signature_cache, signature_creations>>' # <<signature_cache, signature_creations>>
          => UNCHANGED second_evaluator
    /\ second_evaluator' # second_evaluator
          => UNCHANGED <<signature_cache, signature_creations>>

\* C38: a CriterionEvaluator creates at most one oracle signature instance
\* per distinct max_points and reuses it for every later evaluation with that
\* max_points; a creation that fails (unsupported max_points) stores nothing
\* in the cache; the caches of different evaluator instances are independent.
C38_SignatureCache ==
    /\ [](/\ ClaimOneInstance(signature_cache, signature_creations)
          /\ ClaimOneInstance(second_evaluator.signature_cache,
                              second_evaluator.signature_creations))
    /\ [][ClaimReuse /\ ClaimFailureStoresNothing /\ ClaimIndependent]_vars

\* C38 witness: two evaluations with max_points 2 have reached the oracle on
\* one instance, a third with max_points 5 has raised, and the second
\* evaluator has its own instances for 2 and 4.
C38_Witness ==
    /\ pc = "raised"
    /\ max_points = 5
    /\ evaluations = 3
    /\ criteria[1].max_points = 2
    /\ criteria[2].max_points = 2
    /\ oracle_calls = 2
    /\ signature_cache = {2}
    /\ signature_creations[2] = 1
    /\ second_evaluator.signature_cache = {2, 4}

====
